---- MODULE Spec2Model ----
(***************************************************************************)
(* Pane lifecycle manager of claude-canvas (canvas/src/terminal.ts).       *)
(*                                                                         *)
(* Strings are modelled as finite sequences of integer tokens: token 0 is  *)
(* a whitespace character (the newline tmux prints after an id), a token   *)
(* k >= 1 is the text of pane id "%k" (or, for captured text, one visible  *)
(* character).  The empty string is <<>>.  JavaScript's null/undefined is  *)
(* Null, and a store file that does not exist is NoFile.                   *)
(***************************************************************************)
EXTENDS Integers, Sequences, FiniteSets, TLC

\* Largest pane id the multiplexer hands out in a run (ids are never reused).
MaxPaneId == 5
\* Fixed settle delay of reuseExistingPane, in ms.
SettleDelayMs == 150

Null == <<-1>>
NoFile == <<-2>>
WS == 0

\* The pane the caller itself runs in.
HostPanes == {1}
\* Panes a previous invocation may have left behind, by role.
PriorLeetPane == <<2>>
PriorCanvasPane == <<3>>
PriorPanes == {2, 3}
FirstFreshId == Cardinality(HostPanes \cup PriorPanes) + 1

\* Most async calls of one process that are under way at the same time.
MaxInFlight == 2
\* Every other count the model keeps stops growing here.
MaxCount == 2
\* Most async calls that wait for a task.
MaxQueued == 1
\* Most controller messages delivered in a run.
MaxMsgs == 2
\* Most presses of the restart key in a run.
MaxRestarts == 1
\* Most multiplexer commands of a canvas run that fail though nothing is
\* wrong with their target.
MaxFaults == 1
\* a budget above the limit is never spent: any command may fail
NoLimit == MaxFaults + 1
\* Most navigation keys the user presses in a run.
MaxKeys == 1
\* The calls of the capture sink and the view states sent are counted up
\* to here in the runs with a controller whose capture timer may fire while
\* a capture is under way, and up to MaxCount in the others.
MaxSeen == 1
\* The captures a scripted pane answers with text before it is dead.
ScriptTexts == 3

AllTasks == 1..MaxInFlight
\* The callers of the sequential specification.
Callers == {1}

\* keys of a sendKeys message or of a caller: any string
KeyInputs == {"Tab", "C-c"}
\* keys that end the program running in the pane they are sent to
InterruptKeys == {"C-c"}
\* keys the keyboard handler of the canvas passes on
NavKeys == {"Tab", "Down"}
CommandInputs == {"cmdA", "cmdB"}
CaptureTexts == {<<>>, <<7>>, <<7, WS, 8, WS>>}

----------------------------------------------------------------------------
\* String.prototype.trim
RECURSIVE TrimLeft(_)
TrimLeft(s) ==
  IF s = <<>> THEN <<>>
  ELSE IF Head(s) = WS THEN TrimLeft(Tail(s)) ELSE s

RECURSIVE TrimRight(_)
TrimRight(s) ==
  IF s = <<>> THEN <<>>
  ELSE IF s[Len(s)] = WS THEN TrimRight(SubSeq(s, 1, Len(s) - 1)) ELSE s

Trim(s) == TrimRight(TrimLeft(s))

\* `stdout?.toString().trim()`: undefined stays undefined
TrimOpt(s) == IF s = Null THEN Null ELSE Trim(s)

\* JavaScript truthiness of a string|null value
Truthy(s) == s # Null /\ s # <<>>

PaneText(k) == <<k>>
\* what tmux prints for #{pane_id}
PaneLine(k) == <<k, WS>>

----------------------------------------------------------------------------
(* The multiplexer, as the code sees it: every command yields an exit      *)
(* status and captured stdout.  status -1 stands for a process that could  *)
(* not be started (spawnSync status null / the 'error' event).             *)

FailOutcomes == { [status |-> 1, out |-> <<>>, pane |-> 0],
                  [status |-> -1, out |-> Null, pane |-> 0] }

\* tmux display-message -t <pid> -p '#{pane_id}'
TmuxQuery(liveNow, pid) ==
  FailOutcomes \cup
  IF Len(pid) = 1 /\ pid[1] \in liveNow
    THEN { [status |-> 0, out |-> PaneLine(pid[1]), pane |-> pid[1]] }
    \* a target that names no pane exits 0 with an empty line; an empty
    \* target is the current pane, and a dead one may be resolved to
    \* another live pane
    ELSE (IF Truthy(pid) THEN { [status |-> 0, out |-> <<WS>>, pane |-> 0] } ELSE {})
           \cup { [status |-> 0, out |-> PaneLine(q), pane |-> q] : q \in liveNow }

\* tmux split-window -P -F '#{pane_id}' <command>
TmuxSplit(fresh) ==
  FailOutcomes \cup
  IF fresh <= MaxPaneId
    THEN { [status |-> 0, out |-> PaneLine(fresh), pane |-> fresh],
           [status |-> 0, out |-> <<>>, pane |-> fresh] }
    ELSE {}

\* tmux new-session -d ..., tmux split-window ... (nothing printed)
TmuxNewPane(fresh) ==
  FailOutcomes \cup
  IF fresh <= MaxPaneId
    THEN { [status |-> 0, out |-> <<>>, pane |-> fresh] }
    ELSE {}

\* tmux kill-pane -t <pid>
TmuxKill(liveNow, pid) ==
  FailOutcomes \cup
  IF Len(pid) = 1 /\ pid[1] \in liveNow
    THEN { [status |-> 0, out |-> <<>>, pane |-> pid[1]] }
    ELSE {}

\* tmux send-keys -t <pid> <keys>
TmuxSendKeys(liveNow, pid) ==
  FailOutcomes \cup
  IF Len(pid) = 1 /\ pid[1] \in liveNow
    THEN { [status |-> 0, out |-> <<>>, pane |-> pid[1]] }
    ELSE {}

\* tmux capture-pane -p -e -t <pid>
TmuxCapture(liveNow, pid) ==
  FailOutcomes \cup
  IF Len(pid) = 1 /\ pid[1] \in liveNow
    THEN { [status |-> 0, out |-> txt, pane |-> pid[1]] : txt \in CaptureTexts }
    ELSE {}

----------------------------------------------------------------------------
(* Decisions of the code.                                                  *)

\* a verification that trusts the exit status alone
RefValidStatusOnly(status, output, paneId) == status = 0

\* getLeetPaneId / getCanvasPaneId: result.status === 0 && output === paneId
RefValid(status, output, paneId) == status = 0 /\ output = paneId

\* getLeetPaneId only: if (!paneId) return null
LeetBlankShortcut(role, paneId) == role = "leet" /\ ~Truthy(paneId)

\* a spawn that never checks for a session
SpawnEnvUnchecked(inT) == TRUE

\* spawnLeetPane: if (!env.inTmux) throw
SpawnEnvOk(inT) == inT

\* a split accepted on its exit code alone
SplitOkCodeOnly(code, paneId) == code = 0

\* spawnLeetPane / createNewPane: code === 0 && paneId.trim()
SplitOk(code, paneId) == code = 0 /\ Truthy(Trim(paneId))

\* createNewPane: resolve(code === 0)
CreateResult(code, paneId) == code = 0

\* a capture that maps an empty screen to null (output || null)
CaptureResultFalsy(code, output) ==
  IF code = 0 /\ output # <<>> THEN output ELSE Null

\* captureLeetPane: resolve(code === 0 ? output : null)
CaptureResult(code, output) == IF code = 0 THEN output ELSE Null

\* a command whose exit code is not looked at
ExitIgnored(code) == TRUE

\* sendKeysToLeet / reuseExistingPane / killLeetPane: resolve(code === 0)
ExitOk(code) == code = 0

\* a kill that clears the reference only when kill-pane succeeded
KillClearsOnSuccess(code) == code = 0

\* killLeetPane: the reference is cleared on close and on error, whatever the code
KillClears(code) == TRUE

\* an absent-reference test that never fires
NoPaneNever(paneId) == FALSE

\* killLeetPane, captureLeetPane, sendKeysToLeet: if (!paneId) return ...
NoPane(paneId) == ~Truthy(paneId)

\* spawnTmux / spawnLeetPane: if (existingPaneId)
HasExisting(paneId) == Truthy(paneId)

----------------------------------------------------------------------------
VARIABLES
  inTmux,         \* process.env.TMUX is set
  leetFile,       \* content of /tmp/claude-leet-pane-id (NoFile: absent)
  canvasFile,     \* content of /tmp/claude-canvas-pane-id
  live,           \* the multiplexer's live pane table
  nextId,         \* the id the multiplexer gives the next pane
  leetCreated,    \* panes created by spawnLeetPane
  canvasCreated,  \* panes created by createNewPane
  cmdFailed,      \* some multiplexer command did not exit 0
  faultsLeft,     \* commands that may still fail without a cause (NoLimit: any)
  extClosed,      \* the user has closed a pane by hand, outside the manager
  late,           \* handlers still to run after the promise they belong to settled
  task,           \* per caller: the running call and its locals
  hook,           \* useLeetPane: its useState values and its refs
  comp,           \* WandbCanvas: config state, clientRef, mount phase
  rendered,       \* what the effects of the last committed render closed over
  timers,         \* the interval timers of the capture effect
  job,            \* per task: the async function awaiting the task's call
  pend,           \* async calls made that wait for a free task
  ipc,            \* the connection to the controller
  obs             \* what the sinks and the controller have observed

appVars == <<hook, comp, rendered, timers, job, pend, ipc, obs>>

vars == <<inTmux, leetFile, canvasFile, live, nextId, leetCreated,
          canvasCreated, cmdFailed, faultsLeft, extClosed, late, task, appVars>>

\* Most handlers waiting to run after their promise has settled.
MaxLate == 1

\* no handler is waiting; no pane has been interrupted.  `intr` is the set
\* of the live panes whose program has received C-c and has not ended
NoLate == [clear |-> [t \in 1..MaxInFlight |-> 0],
           reuse |-> "none", rpid |-> <<>>, intr |-> {}, auto |-> "none"]

\* the close handler of a kill of task t is still to run
CloseDue(t) == late.clear[t] > 0

\* the handlers still to run
LateCount ==
  Cardinality({t \in DOMAIN late.clear : late.clear[t] > 0})
    + (IF late.reuse = "none" THEN 0 ELSE 1)
    + (IF late.auto = "none" THEN 0 ELSE 1)

FreshLocals ==
  [op |-> "none", pc |-> "idle", role |-> "leet", gret |-> "idle",
   kret |-> "idle", pid |-> Null, res |-> Null, arg |-> "", code |-> 0,
   out |-> Null, reused |-> FALSE, tres |-> FALSE, kres |-> FALSE,
   queried |-> FALSE, qstatus |-> 0, qout |-> Null,
   f0 |-> [leet |-> NoFile, canvas |-> NoFile], conc |-> FALSE,
   atIssue |-> Null, traced |-> TRUE,
   rkind |-> "none", rstr |-> Null, rbool |-> FALSE, rmethod |-> "",
   log |-> <<>>, prev |-> "none"]

----------------------------------------------------------------------------
(* The wandb canvas: the WandbCanvas component (canvases/wandb.tsx) and its *)
(* useLeetPane hook (canvases/wandb/hooks/use-leet-pane.ts).  A null error  *)
(* is "", an omitted leetArgs is 0 (an array is known by its identity, a    *)
(* positive number), an omitted refreshInterval is -1.                      *)

\* useState<LeetPaneState>(...), useState(""), useState(null), the two refs
HookState0 ==
  [paneId |-> Null, isRunning |-> FALSE, lastCapture |-> <<>>,
   lastCaptureTime |-> FALSE, output |-> <<>>, error |-> "",
   captureIntervalRef |-> FALSE, isSpawningRef |-> FALSE]

\* a reset that forgets the capture fields
ResetStateKeepsCapture(h) == [h EXCEPT !.paneId = Null, !.isRunning = FALSE]

\* setState({ paneId: null, isRunning: false, lastCapture: "", lastCaptureTime: null })
ResetState(h) ==
  [h EXCEPT !.paneId = Null, !.isRunning = FALSE, !.lastCapture = <<>>,
            !.lastCaptureTime = FALSE]

\* WandbConfig as the canvas is started with it, or undefined
NoConfig == [defined |-> FALSE, runDir |-> "", leetArgs |-> 0, refreshInterval |-> -1]
ConfigA == [defined |-> TRUE, runDir |-> "runA", leetArgs |-> 0, refreshInterval |-> -1]
\* refreshInterval: 0, documented as "0 = no auto-refresh"
ConfigNoRefresh == [ConfigA EXCEPT !.refreshInterval = 0]

\* the interval WandbCanvas falls back to, in ms
DefaultRefreshMs == 2000

\* config || { runDir: "." }
EffectiveConfig(c) == IF c.defined THEN c ELSE [c EXCEPT !.runDir = "."]

\* captureInterval: config?.refreshInterval || 2000
CaptureInterval(c) ==
  IF c.defined /\ c.refreshInterval > 0 THEN c.refreshInterval
  ELSE DefaultRefreshMs

NoJob == [kind |-> "none", stage |-> 0, paneId |-> Null, error |-> "",
          runDir |-> "", leetArgs |-> 0, keys |-> ""]

CompState0 ==
  [phase |-> "new", config |-> NoConfig, socketPath |-> FALSE,
   clientRef |-> FALSE, dirty |-> FALSE, exited |-> FALSE]

Rendered0 ==
  [paneId |-> Null, isRunning |-> FALSE, error |-> "",
   runDir |-> "", leetArgs |-> 0, captureInterval |-> 0, capCleanup |-> FALSE]

Timers0 == [count |-> 0, refLive |-> FALSE, interval |-> 0, paneId |-> Null,
            error |-> ""]

Ipc0 == [conn |-> "none", resumed |-> FALSE, closed |-> FALSE, mounted |-> FALSE,
         handlerOutput |-> <<>>, handlerPaneId |-> Null, handlerError |-> "",
         readyTimer |-> FALSE, attempts |-> 0, delay |-> 0, waiting |-> FALSE]

NoView == [text |-> <<>>, paneId |-> Null, error |-> ""]

Obs0 == [onCapture |-> 0, onExit |-> 0, ready |-> 0, views |-> 0,
         viewBeforeReady |-> FALSE, cancelled |-> 0, pong |-> 0,
         lastView |-> NoView, msgs |-> 0, lastMsg |-> "",
         paneRunDir |-> "", paneArgs |-> 0, restarts |-> 0, keys |-> 0,
         served |-> 0, upTo |-> MaxCount]

Inc(n) == IF n < MaxCount THEN n + 1 ELSE n

\* one more call of the capture sink, one more view state
Seen(n) == IF n < obs.upTo THEN n + 1 ELSE n

\* no canvas component runs
Unmounted ==
  /\ hook = HookState0
  /\ comp = CompState0
  /\ rendered = Rendered0
  /\ timers = Timers0
  /\ job = [t \in AllTasks |-> NoJob]
  /\ pend = <<>>
  /\ ipc = Ipc0
  /\ obs = Obs0

\* The viewer-role calls are made by the canvas process, which runs in the
\* canvas pane: that pane exists, and a viewer pane may be left from before.
Init ==
  /\ inTmux \in BOOLEAN
  /\ leetFile \in {NoFile, <<>>, PriorLeetPane}
  /\ canvasFile \in {<<>>, PriorCanvasPane}
  /\ live \in {HostPanes \cup {PriorCanvasPane[1]} \cup S : S \in SUBSET {PriorLeetPane[1]}}
  /\ nextId = FirstFreshId
  /\ leetCreated = {}
  /\ canvasCreated = {}
  /\ cmdFailed = FALSE
  /\ faultsLeft = NoLimit
  /\ extClosed = FALSE
  /\ late = NoLate
  /\ task = [t \in AllTasks |-> FreshLocals]
  /\ Unmounted

\* spawnCanvas is called from the host pane; a canvas pane may be left from before.
InitCanvas ==
  /\ inTmux \in BOOLEAN
  /\ leetFile \in {<<>>, PriorLeetPane}
  /\ canvasFile \in {NoFile, <<>>, PriorCanvasPane}
  /\ live \in {HostPanes \cup S : S \in SUBSET PriorPanes}
  /\ nextId = FirstFreshId
  /\ leetCreated = {}
  /\ canvasCreated = {}
  /\ cmdFailed = FALSE
  /\ faultsLeft = NoLimit
  /\ extClosed = FALSE
  /\ late = NoLate
  /\ task = [t \in AllTasks |-> FreshLocals]
  /\ Unmounted

----------------------------------------------------------------------------
(* Effects recorded in a call's log, in the order the call performs them.  *)
StoreRead(role) == [c |-> "read", t |-> <<>>, a |-> role, ms |-> 0]
StoreWrite(role, v) == [c |-> "write", t |-> v, a |-> role, ms |-> 0]
Cmd(name, pid, a) == [c |-> name, t |-> pid, a |-> a, ms |-> 0]
Delay(ms) == [c |-> "delay", t |-> <<>>, a |-> "", ms |-> ms]

MuxCommands == {"display-message", "split-window", "kill-pane", "send-keys",
                "capture-pane"}

FileOf(role) == IF role = "leet" THEN leetFile ELSE canvasFile

\* both roles writing one shared reference
WriteFileShared(role, v) == leetFile' = v /\ canvasFile' = v

\* Bun.write(<role's file>, v)
WriteFile(role, v) ==
  /\ leetFile' = IF role = "leet" THEN v ELSE leetFile
  /\ canvasFile' = IF role = "canvas" THEN v ELSE canvasFile

\* the verification of the call found the persisted reference stale
FoundStale(tr) ==
  tr.queried /\ Truthy(tr.pid) /\ ~(tr.qstatus = 0 /\ TrimOpt(tr.qout) = tr.pid)

\* what a caller remembers of the call it completed last
Summary(tr) ==
  IF tr.op = "killLeetPane"
    THEN IF tr.code # 0 THEN "killLeetPane:failed" ELSE "killLeetPane"
  ELSE IF tr.op = "getLeetPaneId" /\ FoundStale(tr) THEN "getLeetPaneId:stale"
  ELSE IF tr.op = "none" THEN "none"
  ELSE "other"

\* the locals of a call of `op` that starts now; beside the code's locals
\* the call remembers the stores at its start (f0), the call before it
\* (prev), and, at the pane command it issues, what the viewer store held
\* (atIssue)
NewCall(t, op, arg) ==
  [FreshLocals EXCEPT !.op = op, !.arg = arg,
     !.f0 = [leet |-> leetFile, canvas |-> canvasFile],
     \* a call of another process is under way when this one starts
     !.conc = \E u \in AllTasks \ {t} : task[u].pc # "idle",
     !.prev = Summary(task[t])]

\* the locals of a call the hook makes: what a sequential caller would
\* remember of it (the stores at its start, the call before it, the raw
\* outcome of its query) is not recorded
HookCall(t, op, arg) == [FreshLocals EXCEPT !.op = op, !.arg = arg, !.traced = FALSE]

\* enter the stale-reference verification for `role`, returning to `gret`
EnterGet(tr, role, gret) ==
  [tr EXCEPT !.pc = "g_exists", !.role = role, !.gret = gret, !.pid = Null,
             !.res = Null, !.queried = FALSE, !.qstatus = 0, !.qout = Null]

Returned(tr, kind, s, b) ==
  [tr EXCEPT !.pc = "idle", !.rkind = kind, !.rstr = s, !.rbool = b]

Env == <<inTmux, live, nextId, leetCreated, canvasCreated, cmdFailed, faultsLeft,
        extClosed>>

\* the pane a command names is in the pane table
TargetThere(liveNow, pid) == Len(pid) = 1 /\ pid[1] \in liveNow

\* a command that could not be started, or that failed on a pane that is there
Fault(o, there) == o.status = -1 \/ (o.status # 0 /\ there)

\* a split-window that failed or printed nothing though a pane can be made
SplitFault(o, fresh) == fresh <= MaxPaneId /\ (o.status # 0 \/ o.out = <<>>)

Affordable(fault) == fault => faultsLeft # 0
Spent(fault) ==
  IF fault /\ faultsLeft \in 1..MaxFaults THEN faultsLeft - 1 ELSE faultsLeft

\* spawn() of a program that cannot be started emits 'error' and then
\* 'close': both handlers of the child process run
ErrorThenClose(code) == code = -1

Files == <<leetFile, canvasFile>>

----------------------------------------------------------------------------
(* Stale-reference verification: getLeetPaneId / getCanvasPaneId.          *)

\* const file = Bun.file(FILE); if (await file.exists()) ... else return null
Get_Exists(t) ==
  LET tr == task[t] IN
  /\ tr.pc = "g_exists"
  /\ task' = [task EXCEPT ![t] =
       IF FileOf(tr.role) = NoFile
         THEN [tr EXCEPT !.log = Append(@, StoreRead(tr.role)),
                         !.pc = tr.gret, !.res = Null]
         ELSE [tr EXCEPT !.pc = "g_read"]]
  /\ UNCHANGED <<Env, Files, late>>
  /\ UNCHANGED appVars

\* spawnSync("tmux", ["display-message", "-t", paneId, "-p", "#{pane_id}"])
\* has ended with outcome o: the reference is returned or is stale
Get_Query(tr, o) ==
  [tr EXCEPT
     !.log = Append(@, Cmd("display-message", tr.pid, "")),
     !.queried = TRUE,
     !.qstatus = IF tr.traced THEN o.status ELSE @,
     !.qout = IF tr.traced THEN o.out ELSE @,
     !.res = IF RefValid(o.status, TrimOpt(o.out), tr.pid)
               THEN tr.pid ELSE Null,
     !.pc = IF RefValid(o.status, TrimOpt(o.out), tr.pid)
              THEN tr.gret ELSE "g_clear"]

\* (await file.text()).trim(), the blank shortcut of the viewer role, and
\* the query: spawnSync blocks, nothing runs between the read and the query
Get_Read(t) ==
  LET tr == task[t]
      content == FileOf(tr.role)
      logged == [tr EXCEPT !.log = Append(@, StoreRead(tr.role))]
      read == [logged EXCEPT !.pid = Trim(content)]
  IN
  /\ tr.pc = "g_read"
  /\ IF content = NoFile
       THEN /\ task' = [task EXCEPT ![t] = [logged EXCEPT !.pc = tr.gret, !.res = Null]]
            /\ UNCHANGED <<cmdFailed, faultsLeft>>
     ELSE IF LeetBlankShortcut(tr.role, Trim(content))
       THEN /\ task' = [task EXCEPT ![t] = [read EXCEPT !.pc = tr.gret, !.res = Null]]
            /\ UNCHANGED <<cmdFailed, faultsLeft>>
     ELSE \E o \in TmuxQuery(live, read.pid) :
            /\ Affordable(Fault(o, TargetThere(live, read.pid)))
            /\ task' = [task EXCEPT ![t] = Get_Query(read, o)]
            /\ cmdFailed' = (cmdFailed \/ o.status # 0)
            /\ faultsLeft' = Spent(Fault(o, TargetThere(live, read.pid)))
  /\ UNCHANGED <<inTmux, live, nextId, leetCreated, canvasCreated, extClosed, Files, late>>
  /\ UNCHANGED appVars

\* stale reference: Bun.write(FILE, "")
Get_Clear(t) ==
  LET tr == task[t] IN
  /\ tr.pc = "g_clear"
  /\ WriteFile(tr.role, <<>>)
  /\ UNCHANGED late
  /\ task' = [task EXCEPT ![t] =
       [tr EXCEPT !.log = Append(@, StoreWrite(tr.role, <<>>)),
                  !.res = Null, !.pc = tr.gret]]
  /\ UNCHANGED Env
  /\ UNCHANGED appVars

----------------------------------------------------------------------------
(* getLeetPaneId and isLeetPaneAlive as called from outside.               *)

GetLeetPaneId_Call(t) ==
  /\ task[t].pc = "idle"
  /\ task' = [task EXCEPT ![t] =
       EnterGet(NewCall(t, "getLeetPaneId", ""), "leet", "gl_ret")]
  /\ UNCHANGED <<Env, Files, late>>
  /\ UNCHANGED appVars

GetLeetPaneId_Return(t) ==
  LET tr == task[t] IN
  /\ tr.pc = "gl_ret"
  /\ task' = [task EXCEPT ![t] = Returned(tr, "str", tr.res, FALSE)]
  /\ UNCHANGED <<Env, Files, late>>
  /\ UNCHANGED appVars

IsLeetPaneAlive_Call(t) ==
  /\ task[t].pc = "idle"
  /\ task' = [task EXCEPT ![t] =
       EnterGet(NewCall(t, "isLeetPaneAlive", ""), "leet", "ia_ret")]
  /\ UNCHANGED <<Env, Files, late>>
  /\ UNCHANGED appVars

\* return paneId !== null
IsLeetPaneAlive_Return(t) ==
  LET tr == task[t] IN
  /\ tr.pc = "ia_ret"
  /\ task' = [task EXCEPT ![t] = Returned(tr, "bool", Null, tr.res # Null)]
  /\ UNCHANGED <<Env, Files, late>>
  /\ UNCHANGED appVars

----------------------------------------------------------------------------
(* killLeetPane, called from outside (kret = "k_ret") or by spawnLeetPane  *)
(* (kret = "s_split").                                                     *)

KillLeetPane_Call(t) ==
  /\ task[t].pc = "idle"
  /\ task' = [task EXCEPT ![t] =
       EnterGet([NewCall(t, "killLeetPane", "") EXCEPT !.kret = "k_ret"],
                "leet", "k_chk")]
  /\ UNCHANGED <<Env, Files, late>>
  /\ UNCHANGED appVars

\* if (!paneId) return true
Kill_Check(t) ==
  LET tr == task[t] IN
  /\ tr.pc = "k_chk"
  /\ task' = [task EXCEPT ![t] =
       IF NoPane(tr.res)
         THEN [tr EXCEPT !.kres = TRUE, !.pc = tr.kret]
         ELSE [tr EXCEPT !.pc = "k_cmd"]]
  /\ UNCHANGED <<Env, Files, late>>
  /\ UNCHANGED appVars

\* spawn("tmux", ["kill-pane", "-t", paneId]) up to its close / error event
Kill_Cmd(t) ==
  LET tr == task[t] IN
  /\ tr.pc = "k_cmd"
  /\ \E o \in TmuxKill(live, tr.res) :
       /\ ErrorThenClose(o.status) => LateCount < MaxLate
       /\ live' = IF o.status = 0 THEN live \ {o.pane} ELSE live
       \* a killed pane has no program left to end
       /\ late' = IF o.status = 0 THEN [late EXCEPT !.intr = @ \ {o.pane}] ELSE late
       /\ Affordable(Fault(o, TargetThere(live, tr.res)))
       /\ cmdFailed' = (cmdFailed \/ o.status # 0)
       /\ faultsLeft' = Spent(Fault(o, TargetThere(live, tr.res)))
       /\ task' = [task EXCEPT ![t] =
            [tr EXCEPT !.log = Append(@, Cmd("kill-pane", tr.res, "")),
                       !.atIssue = IF tr.traced THEN leetFile ELSE @,
                       !.code = o.status, !.pc = "k_clear"]]
  /\ UNCHANGED <<inTmux, nextId, leetCreated, canvasCreated, extClosed, Files>>
  /\ UNCHANGED appVars

\* await Bun.write(LEET_PANE_FILE, ""); resolve(code === 0) / resolve(false);
\* after an 'error' the 'close' handler is still to run
Kill_Clear(t) ==
  LET tr == task[t] IN
  /\ tr.pc = "k_clear"
  /\ IF KillClears(tr.code)
       THEN /\ leetFile' = <<>> /\ canvasFile' = canvasFile
            /\ task' = [task EXCEPT ![t] =
                 [tr EXCEPT !.log = Append(@, StoreWrite("leet", <<>>)),
                            !.kres = ExitOk(tr.code), !.pc = tr.kret]]
       ELSE /\ UNCHANGED Files
            /\ task' = [task EXCEPT ![t] =
                 [tr EXCEPT !.kres = ExitOk(tr.code), !.pc = tr.kret]]
  /\ late' = IF ErrorThenClose(tr.code)
               THEN [late EXCEPT !.clear[t] = @ + 1] ELSE late
  /\ UNCHANGED Env
  /\ UNCHANGED appVars

\* proc.on("close") after proc.on("error") has resolved the promise:
\* await Bun.write(LEET_PANE_FILE, ""); resolve(...) is a no-op.  The write
\* is a step of its own, whatever the caller does by then.
Kill_LateClose(t) ==
  /\ CloseDue(t)
  /\ IF KillClears(-1)
       THEN leetFile' = <<>> /\ canvasFile' = canvasFile
       ELSE UNCHANGED Files
  /\ late' = [late EXCEPT !.clear[t] = @ - 1]
  /\ UNCHANGED <<Env, task>>
  /\ UNCHANGED appVars

KillLeetPane_Return(t) ==
  LET tr == task[t] IN
  /\ tr.pc = "k_ret"
  /\ task' = [task EXCEPT ![t] = Returned(tr, "bool", Null, tr.kres)]
  /\ UNCHANGED <<Env, Files, late>>
  /\ UNCHANGED appVars

----------------------------------------------------------------------------
(* spawnLeetPane                                                           *)

SpawnLeetPane_Call(t) ==
  /\ task[t].pc = "idle"
  /\ task' = [task EXCEPT ![t] =
       [NewCall(t, "spawnLeetPane", "") EXCEPT !.pc = "s_env"]]
  /\ UNCHANGED <<Env, Files, late>>
  /\ UNCHANGED appVars

\* detectTerminal(); if (!env.inTmux) throw new Error(...)
Spawn_Env(t) ==
  LET tr == task[t] IN
  /\ tr.pc = "s_env"
  /\ task' = [task EXCEPT ![t] =
       IF SpawnEnvOk(inTmux)
         THEN EnterGet(tr, "leet", "s_chk")
         ELSE Returned(tr, "throw", Null, FALSE)]
  /\ UNCHANGED <<Env, Files, late>>
  /\ UNCHANGED appVars

\* if (existingPaneId) await killLeetPane()
Spawn_Check(t) ==
  LET tr == task[t] IN
  /\ tr.pc = "s_chk"
  /\ task' = [task EXCEPT ![t] =
       IF HasExisting(tr.res)
         THEN EnterGet([tr EXCEPT !.kret = "s_split"], "leet", "k_chk")
         ELSE [tr EXCEPT !.pc = "s_split"]]
  /\ UNCHANGED <<Env, Files, late>>
  /\ UNCHANGED appVars

\* spawn("tmux", ["split-window", ..., "-P", "-F", "#{pane_id}", command])
Spawn_Split(t) ==
  LET tr == task[t] IN
  /\ tr.pc = "s_split"
  /\ \E o \in TmuxSplit(nextId) :
       /\ live' = IF o.status = 0 THEN live \cup {o.pane} ELSE live
       /\ nextId' = IF o.status = 0 THEN nextId + 1 ELSE nextId
       /\ leetCreated' = IF o.status = 0 THEN leetCreated \cup {o.pane}
                         ELSE leetCreated
       /\ Affordable(SplitFault(o, nextId))
       /\ cmdFailed' = (cmdFailed \/ o.status # 0)
       /\ faultsLeft' = Spent(SplitFault(o, nextId))
       /\ task' = [task EXCEPT ![t] =
            LET issued == [tr EXCEPT
                  !.log = Append(@, Cmd("split-window", <<>>, "leet")),
                  !.code = o.status, !.out = o.out]
            IN IF o.status # -1 /\ SplitOk(o.status, o.out)
                 THEN [issued EXCEPT !.pc = "s_save"]
                 ELSE Returned(issued, "str", Null, FALSE)]
  /\ UNCHANGED <<inTmux, canvasCreated, extClosed, Files, late>>
  /\ UNCHANGED appVars

\* await saveLeetPaneId(paneId.trim()); resolve(paneId.trim())
Spawn_Save(t) ==
  LET tr == task[t] IN
  /\ tr.pc = "s_save"
  /\ WriteFile("leet", Trim(tr.out))
  /\ UNCHANGED late
  /\ task' = [task EXCEPT ![t] =
       Returned([tr EXCEPT !.log = Append(@, StoreWrite("leet", Trim(tr.out)))],
                "str", Trim(tr.out), FALSE)]
  /\ UNCHANGED Env
  /\ UNCHANGED appVars

----------------------------------------------------------------------------
(* captureLeetPane and sendKeysToLeet                                      *)

CaptureLeetPane_Call(t) ==
  /\ task[t].pc = "idle"
  /\ task' = [task EXCEPT ![t] =
       EnterGet(NewCall(t, "captureLeetPane", ""), "leet", "c_chk")]
  /\ UNCHANGED <<Env, Files, late>>
  /\ UNCHANGED appVars

\* if (!paneId) return null
Capture_Check(t) ==
  LET tr == task[t] IN
  /\ tr.pc = "c_chk"
  /\ task' = [task EXCEPT ![t] =
       IF NoPane(tr.res) THEN Returned(tr, "str", Null, FALSE)
       ELSE [tr EXCEPT !.pc = "c_cmd"]]
  /\ UNCHANGED <<Env, Files, late>>
  /\ UNCHANGED appVars

\* the capture-pane of caller t has ended with outcome o: on "close" the
\* promise resolves with the output if the code is 0 and with null
\* otherwise, on "error" with null
Capture_Ended(t, o) ==
  LET tr == task[t] IN
  /\ Affordable(Fault(o, TargetThere(live, tr.res)))
  /\ cmdFailed' = (cmdFailed \/ o.status # 0)
  /\ faultsLeft' = Spent(Fault(o, TargetThere(live, tr.res)))
  /\ task' = [task EXCEPT ![t] =
       Returned([tr EXCEPT
                   !.log = Append(@, Cmd("capture-pane", tr.res, "")),
                   !.atIssue = IF tr.traced THEN leetFile ELSE @,
                   !.code = o.status, !.out = o.out],
                "str",
                IF o.status = -1 THEN Null
                ELSE CaptureResult(o.status, o.out),
                FALSE)]

\* spawn("tmux", ["capture-pane", "-p", "-e", "-t", paneId])
Capture_Cmd(t) ==
  /\ task[t].pc = "c_cmd"
  /\ \E o \in TmuxCapture(live, task[t].res) : Capture_Ended(t, o)
  /\ UNCHANGED <<inTmux, live, nextId, leetCreated, canvasCreated, extClosed, Files, late>>
  /\ UNCHANGED appVars

\* the text a scripted pane shows
ScriptText == <<7>>

\* capture-pane on a pane whose program ends after ScriptTexts captures: a
\* capture of the live pane gives the text, and the capture that gets the
\* last text is the last one the pane is there for
Script_Capture(t) ==
  LET tr == task[t]
      there == TargetThere(live, tr.res)
  IN
  /\ tr.pc = "c_cmd"
  /\ \E o \in {x \in TmuxCapture(live, tr.res) : x.status = 0 => x.out = ScriptText} :
       Capture_Ended(t, o)
  /\ obs' = [obs EXCEPT !.served = IF there THEN @ + 1 ELSE @]
  /\ live' = IF there /\ obs.served + 1 = ScriptTexts THEN live \ {tr.res[1]} ELSE live
  /\ UNCHANGED <<inTmux, nextId, leetCreated, canvasCreated, extClosed, Files, late>>
  /\ UNCHANGED <<hook, comp, rendered, timers, job, pend, ipc>>

SendKeysToLeet_Call(t) ==
  /\ task[t].pc = "idle"
  /\ \E keys \in KeyInputs :
       task' = [task EXCEPT ![t] =
         EnterGet(NewCall(t, "sendKeysToLeet", keys), "leet", "n_chk")]
  /\ UNCHANGED <<Env, Files, late>>
  /\ UNCHANGED appVars

\* if (!paneId) return false
SendKeys_Check(t) ==
  LET tr == task[t] IN
  /\ tr.pc = "n_chk"
  /\ task' = [task EXCEPT ![t] =
       IF NoPane(tr.res) THEN Returned(tr, "bool", Null, FALSE)
       ELSE [tr EXCEPT !.pc = "n_cmd"]]
  /\ UNCHANGED <<Env, Files, late>>
  /\ UNCHANGED appVars

\* spawn("tmux", ["send-keys", "-t", paneId, keys])
SendKeys_Cmd(t) ==
  LET tr == task[t] IN
  /\ tr.pc = "n_cmd"
  /\ \E o \in TmuxSendKeys(live, tr.res) :
       /\ Affordable(Fault(o, TargetThere(live, tr.res)))
       /\ cmdFailed' = (cmdFailed \/ o.status # 0)
       /\ faultsLeft' = Spent(Fault(o, TargetThere(live, tr.res)))
       /\ task' = [task EXCEPT ![t] =
            Returned([tr EXCEPT
                        !.log = Append(@, Cmd("send-keys", tr.res, tr.arg)),
                        !.atIssue = IF tr.traced THEN leetFile ELSE @,
                        !.code = o.status],
                     "bool", Null, o.status # -1 /\ ExitOk(o.status))]
       \* the pane has received a key that ends its program
       /\ late' = IF o.status = 0 /\ tr.arg \in InterruptKeys
                    THEN [late EXCEPT !.intr = @ \cup {o.pane}] ELSE late
  /\ UNCHANGED <<inTmux, live, nextId, leetCreated, canvasCreated, extClosed, Files>>
  /\ UNCHANGED appVars

----------------------------------------------------------------------------
(* spawnCanvas -> spawnTmux -> reuseExistingPane / createNewPane           *)

\* spawnCanvas up to its first await: the environment checks
SpawnCanvas_Call(t) ==
  /\ task[t].pc = "idle"
  /\ \E command \in CommandInputs, wandbWithConfig \in BOOLEAN :
       task' = [task EXCEPT ![t] =
         LET nc == NewCall(t, "spawnCanvas", command) IN
         IF ~inTmux /\ wandbWithConfig
           \* autoStartTmux: await Bun.write(configFile, configJson)
           THEN [nc EXCEPT !.pc = "a_write"]
         ELSE IF ~inTmux
           THEN Returned(nc, "throw", Null, FALSE)
         ELSE EnterGet(nc, "canvas", "t_chk")]
  /\ UNCHANGED <<Env, Files, late>>
  /\ UNCHANGED appVars

\* autoStartTmux, after the config file is written: on macOS the script is
\* handed to a new Terminal window (Bun.spawn(["osascript", ...]), not
\* awaited) and { method: "tmux-auto" } is returned; elsewhere it throws
Auto_Launch(t) ==
  LET tr == task[t] IN
  /\ tr.pc = "a_write"
  /\ \E darwin \in BOOLEAN :
       IF darwin
         THEN /\ LateCount < MaxLate
              /\ task' = [task EXCEPT ![t] =
                   [Returned(tr, "obj", Null, FALSE) EXCEPT !.rmethod = "tmux-auto"]]
              /\ late' = [late EXCEPT !.auto = "session"]
         ELSE /\ task' = [task EXCEPT ![t] = Returned(tr, "throw", Null, FALSE)]
              /\ late' = late
  /\ UNCHANGED <<Env, Files>>
  /\ UNCHANGED appVars

\* a command of the script that makes a pane; `&&` ends the script when it fails
AutoPane(then) ==
  /\ \E o \in TmuxNewPane(nextId) :
       /\ live' = IF o.status = 0 THEN live \cup {o.pane} ELSE live
       /\ nextId' = IF o.status = 0 THEN nextId + 1 ELSE nextId
       /\ cmdFailed' = (cmdFailed \/ o.status # 0)
       /\ late' = [late EXCEPT !.auto = IF o.status = 0 THEN then ELSE "none"]
  /\ UNCHANGED <<inTmux, leetCreated, canvasCreated, faultsLeft, extClosed, Files, task>>
  /\ UNCHANGED appVars

\* the script: tmux new-session -d -s canvas-<id> -x 200 -y 50 '<canvasCmd>'
Auto_Session == late.auto = "session" /\ AutoPane("split")

\* the script: tmux split-window -h -t canvas-<id> -p 60 '<leetCmd>'; the
\* select-pane and attach-session that follow make and close no pane
Auto_Split == late.auto = "split" /\ AutoPane("none")

\* spawnTmux: if (existingPaneId) reuseExistingPane(...) else createNewPane(...)
Tmux_Check(t) ==
  LET tr == task[t] IN
  /\ tr.pc = "t_chk"
  /\ task' = [task EXCEPT ![t] =
       IF HasExisting(tr.res) THEN [tr EXCEPT !.pc = "r_int"]
       ELSE [tr EXCEPT !.pc = "n_split"]]
  /\ UNCHANGED <<Env, Files, late>>
  /\ UNCHANGED appVars

\* reuseExistingPane: spawn("tmux", ["send-keys", "-t", paneId, "C-c"])
Reuse_Interrupt(t) ==
  LET tr == task[t] IN
  /\ tr.pc = "r_int"
  /\ \E o \in TmuxSendKeys(live, tr.res) :
       /\ ErrorThenClose(o.status) => LateCount < MaxLate
       /\ Affordable(Fault(o, TargetThere(live, tr.res)))
       /\ cmdFailed' = (cmdFailed \/ o.status # 0)
       /\ faultsLeft' = Spent(Fault(o, TargetThere(live, tr.res)))
       /\ task' = [task EXCEPT ![t] =
            LET issued == [tr EXCEPT
                  !.log = Append(@, Cmd("send-keys", tr.res, "C-c")),
                  !.code = o.status]
            IN IF o.status = -1
                 \* killProc.on("error"): resolve(false)
                 THEN [issued EXCEPT !.reused = FALSE, !.pc = "t_reused"]
                 \* killProc.on("close"): arm the settle timer, whatever the code
                 ELSE [issued EXCEPT !.pc = "r_wait"]]
       /\ late' =
            IF ErrorThenClose(o.status)
              \* killProc.on("close") is still to run, for the same pane and command
              THEN [late EXCEPT !.reuse = "wait", !.rpid = tr.res]
            ELSE IF o.status = 0
              \* the pane has received C-c: its command may end
              THEN [late EXCEPT !.intr = @ \cup {o.pane}]
            ELSE late
  /\ UNCHANGED <<inTmux, live, nextId, leetCreated, canvasCreated, extClosed, Files>>
  /\ UNCHANGED appVars

\* a reuse that sends the new command without waiting
Reuse_NoSettle(t) ==
  LET tr == task[t] IN
  /\ tr.pc = "r_wait"
  /\ task' = [task EXCEPT ![t] = [tr EXCEPT !.pc = "r_cmd"]]
  /\ UNCHANGED <<Env, Files, late>>
  /\ UNCHANGED appVars

\* setTimeout(..., 150) fires
Reuse_Settle(t) ==
  LET tr == task[t] IN
  /\ tr.pc = "r_wait"
  /\ task' = [task EXCEPT ![t] =
       [tr EXCEPT !.log = Append(@, Delay(SettleDelayMs)), !.pc = "r_cmd"]]
  /\ UNCHANGED <<Env, Files, late>>
  /\ UNCHANGED appVars

\* spawn("tmux", ["send-keys", "-t", paneId, `clear && ${command}`, "Enter"])
Reuse_Command(t) ==
  LET tr == task[t] IN
  /\ tr.pc = "r_cmd"
  /\ \E o \in TmuxSendKeys(live, tr.res) :
       /\ Affordable(Fault(o, TargetThere(live, tr.res)))
       /\ cmdFailed' = (cmdFailed \/ o.status # 0)
       /\ faultsLeft' = Spent(Fault(o, TargetThere(live, tr.res)))
       /\ task' = [task EXCEPT ![t] =
            [tr EXCEPT !.log = Append(@, Cmd("send-keys", tr.res, tr.arg)),
                       !.code = o.status,
                       !.reused = (o.status # -1 /\ ExitOk(o.status)),
                       !.pc = "t_reused"]]
  /\ UNCHANGED <<inTmux, live, nextId, leetCreated, canvasCreated, extClosed, Files, late>>
  /\ UNCHANGED appVars

\* killProc.on("close") after killProc.on("error"): setTimeout(..., 150) fires
Reuse_LateSettle ==
  /\ late.reuse = "wait"
  /\ late' = [late EXCEPT !.reuse = "cmd"]
  /\ UNCHANGED <<Env, Files, task>>
  /\ UNCHANGED appVars

\* ... and sends the command to the old pane; its resolve(...) is a no-op
Reuse_LateCommand ==
  /\ late.reuse = "cmd"
  /\ \E o \in TmuxSendKeys(live, late.rpid) :
       /\ Affordable(Fault(o, TargetThere(live, late.rpid)))
       /\ cmdFailed' = (cmdFailed \/ o.status # 0)
       /\ faultsLeft' = Spent(Fault(o, TargetThere(live, late.rpid)))
  /\ late' = [late EXCEPT !.reuse = "none", !.rpid = <<>>]
  /\ UNCHANGED <<inTmux, live, nextId, leetCreated, canvasCreated, extClosed, Files, task>>
  /\ UNCHANGED appVars

\* the command of a pane that received C-c ends, at any time after the
\* key was delivered, and the multiplexer closes the pane: it was created
\* by split-window with that command
Interrupt_Exits ==
  /\ \E p \in late.intr \cap live :
       /\ live' = live \ {p}
       /\ late' = [late EXCEPT !.intr = @ \ {p}]
  /\ UNCHANGED <<inTmux, nextId, leetCreated, canvasCreated, cmdFailed, faultsLeft, extClosed, Files, task>>
  /\ UNCHANGED appVars

\* spawnTmux: if (reused) return true
Tmux_Reused(t) ==
  LET tr == task[t] IN
  /\ tr.pc = "t_reused"
  /\ task' = [task EXCEPT ![t] =
       IF tr.reused THEN [tr EXCEPT !.tres = TRUE, !.pc = "cv_ret"]
       ELSE [tr EXCEPT !.pc = "t_clear"]]
  /\ UNCHANGED <<Env, Files, late>>
  /\ UNCHANGED appVars

\* spawnTmux: await Bun.write(CANVAS_PANE_FILE, "")
Tmux_Clear(t) ==
  LET tr == task[t] IN
  /\ tr.pc = "t_clear"
  /\ WriteFile("canvas", <<>>)
  /\ UNCHANGED late
  /\ task' = [task EXCEPT ![t] =
       [tr EXCEPT !.log = Append(@, StoreWrite("canvas", <<>>)), !.pc = "n_split"]]
  /\ UNCHANGED Env
  /\ UNCHANGED appVars

\* createNewPane: spawn("tmux", ["split-window", ..., "-P", "-F", "#{pane_id}", command])
Create_Split(t) ==
  LET tr == task[t] IN
  /\ tr.pc = "n_split"
  /\ \E o \in TmuxSplit(nextId) :
       /\ live' = IF o.status = 0 THEN live \cup {o.pane} ELSE live
       /\ nextId' = IF o.status = 0 THEN nextId + 1 ELSE nextId
       /\ canvasCreated' = IF o.status = 0 THEN canvasCreated \cup {o.pane}
                           ELSE canvasCreated
       /\ Affordable(SplitFault(o, nextId))
       /\ cmdFailed' = (cmdFailed \/ o.status # 0)
       /\ faultsLeft' = Spent(SplitFault(o, nextId))
       /\ task' = [task EXCEPT ![t] =
            LET issued == [tr EXCEPT
                  !.log = Append(@, Cmd("split-window", <<>>, tr.arg)),
                  !.code = o.status, !.out = o.out]
            IN IF o.status = -1
                 THEN [issued EXCEPT !.tres = FALSE, !.pc = "cv_ret"]
               ELSE IF SplitOk(o.status, o.out)
                 THEN [issued EXCEPT !.pc = "n_save"]
               ELSE [issued EXCEPT !.tres = CreateResult(o.status, o.out),
                                   !.pc = "cv_ret"]]
  /\ UNCHANGED <<inTmux, leetCreated, extClosed, Files, late>>
  /\ UNCHANGED appVars

\* createNewPane: await saveCanvasPaneId(paneId.trim()); resolve(code === 0)
Create_Save(t) ==
  LET tr == task[t] IN
  /\ tr.pc = "n_save"
  /\ WriteFile("canvas", Trim(tr.out))
  /\ UNCHANGED late
  /\ task' = [task EXCEPT ![t] =
       [tr EXCEPT !.log = Append(@, StoreWrite("canvas", Trim(tr.out))),
                  !.tres = CreateResult(tr.code, tr.out), !.pc = "cv_ret"]]
  /\ UNCHANGED Env
  /\ UNCHANGED appVars

\* spawnCanvas: if (result) return { method: "tmux" }; throw ...
SpawnCanvas_Return(t) ==
  LET tr == task[t] IN
  /\ tr.pc = "cv_ret"
  /\ task' = [task EXCEPT ![t] =
       IF tr.tres
         THEN [Returned(tr, "obj", Null, TRUE) EXCEPT !.rmethod = "tmux"]
         ELSE Returned(tr, "throw", Null, FALSE)]
  /\ UNCHANGED <<Env, Files, late>>
  /\ UNCHANGED appVars

----------------------------------------------------------------------------
ViewerPanes == (1..MaxPaneId) \ (HostPanes \cup {PriorCanvasPane[1]})
AnyPane == (1..MaxPaneId) \ HostPanes

\* the user closes one of the panes `closable` by hand
ExternalClose(closable) ==
  /\ \E p \in live \cap closable :
       /\ live' = live \ {p}
       /\ extClosed' = TRUE
       \* a closed pane has no command left to end
       /\ late' = [late EXCEPT !.intr = @ \ {p}]
  /\ UNCHANGED <<inTmux, nextId, leetCreated, canvasCreated, cmdFailed, faultsLeft, Files, task>>
  /\ UNCHANGED appVars

----------------------------------------------------------------------------
(* useLeetPane.  An async call the component makes gets under way on a     *)
(* free task (a call that finds none waits in `pend`, which is the call's  *)
(* first read being slow); the task runs the call of terminal.ts step by   *)
(* step, and the async function that awaits it resumes when the call has   *)
(* returned.  An effect or handler collects the calls it makes in the      *)
(* `calls` of the world it works on.                                       *)

KillJob == [NoJob EXCEPT !.kind = "kill"]
StopJob == [NoJob EXCEPT !.kind = "stop"]
SpawnJob(cfg) ==
  [NoJob EXCEPT !.kind = "spawn", !.runDir = cfg.runDir, !.leetArgs = cfg.leetArgs]
\* doCapture closes over onCapture / onExit of the render that ran the effect
DoCaptureJob(paneId, error) ==
  [NoJob EXCEPT !.kind = "doCapture", !.stage = 1, !.paneId = paneId,
                !.error = error]
CaptureJob == [NoJob EXCEPT !.kind = "capture"]
SendKeysJob(keys) == [NoJob EXCEPT !.kind = "sendKeys", !.keys = keys]

\* the hook's part of the state an effect or handler works on
World == [hook |-> hook, timers |-> timers, calls |-> <<>>, dirty |-> comp.dirty]

\* if (captureIntervalRef.current) clearInterval(captureIntervalRef.current)
ClearInterval(w) ==
  IF w.hook.captureIntervalRef /\ w.timers.refLive
    THEN [w EXCEPT !.timers.count = @ - 1, !.timers.refLive = FALSE]
    ELSE w

\* cleanup of the spawn effect: the timer is cleared, killLeetPane() is not awaited
SpawnCleanup(w) == [ClearInterval(w) EXCEPT !.calls = Append(@, KillJob)]

\* spawn(): if (isSpawningRef.current) return; ...; setError(null);
\* await spawnLeetPane(...)
SpawnSetup(w, cfg) ==
  IF w.hook.isSpawningRef THEN w
  ELSE [w EXCEPT !.hook.isSpawningRef = TRUE, !.hook.error = "",
                 !.dirty = @ \/ w.hook.error # "",
                 !.calls = Append(@, SpawnJob(cfg))]

\* a cleanup of the capture effect that leaves the timer armed
CaptureCleanupKeepsTimer(w) == w

\* cleanup of the capture effect
CaptureCleanup(w) ==
  IF w.hook.captureIntervalRef
    THEN [ClearInterval(w) EXCEPT !.hook.captureIntervalRef = FALSE]
    ELSE w

\* the capture effect runs: if (!state.isRunning || !state.paneId) return
CaptureRuns(isRunning, paneId) == isRunning /\ Truthy(paneId)

\* doCapture(); captureIntervalRef.current = setInterval(doCapture, captureInterval)
CaptureSetup(w, paneId, error, interval) ==
  [w EXCEPT !.calls = Append(@, DoCaptureJob(paneId, error)),
            !.timers = [count |-> w.timers.count + 1, refLive |-> TRUE,
                        interval |-> interval, paneId |-> paneId,
                        error |-> error],
            !.hook.captureIntervalRef = TRUE]

\* dependencies of the capture effect: [state.isRunning, state.paneId,
\* captureInterval, onCapture, onExit]; WandbCanvas passes the two sinks as
\* inline arrow functions, which are new objects in every render
CaptureDepsChanged(r, isRunning, paneId, interval) == TRUE

\* dependencies of the spawn effect: [config.runDir, config.leetArgs]
SpawnDepsChanged(r, cfg) == r.runDir # cfg.runDir \/ r.leetArgs # cfg.leetArgs

\* the effects of useLeetPane after a commit: cleanups first, then the bodies
HookEffects(w0, r, cfg, interval, first) ==
  LET isRunning == w0.hook.isRunning
      paneId == w0.hook.paneId
      error == w0.hook.error
      sp == first \/ SpawnDepsChanged(r, cfg)
      cp == first \/ CaptureDepsChanged(r, isRunning, paneId, interval)
      w1 == IF sp /\ ~first THEN SpawnCleanup(w0) ELSE w0
      w2 == IF cp /\ r.capCleanup THEN CaptureCleanup(w1) ELSE w1
      w3 == IF sp THEN SpawnSetup(w2, cfg) ELSE w2
  IN IF cp /\ CaptureRuns(isRunning, paneId)
       THEN CaptureSetup(w3, paneId, error, interval)
       ELSE w3

\* what the committed render closed over
Snapshot(w0, r, cfg, interval, first) ==
  LET cp == first \/ CaptureDepsChanged(r, w0.hook.isRunning, w0.hook.paneId, interval)
  IN [paneId |-> w0.hook.paneId, isRunning |-> w0.hook.isRunning,
      error |-> w0.hook.error,
      runDir |-> cfg.runDir, leetArgs |-> cfg.leetArgs,
      captureInterval |-> interval,
      capCleanup |-> IF cp THEN CaptureRuns(w0.hook.isRunning, w0.hook.paneId)
                     ELSE r.capCleanup]

Free(t) == job[t].kind = "none"
FreeTasks == {t \in AllTasks : Free(t)}

\* the place of free task t among the free tasks
Rank(t) == Cardinality({u \in FreeTasks : u <= t})

\* a stop() that only looks whether the pane is there
StopCallNoKill(t) == EnterGet(HookCall(t, "isLeetPaneAlive", ""), "leet", "ia_ret")

\* stop(): await killLeetPane()
StopCall(t) ==
  EnterGet([HookCall(t, "killLeetPane", "") EXCEPT !.kret = "k_ret"], "leet", "k_chk")

\* the call a started async function makes first
FirstCall(t, j) ==
  IF j.kind \in {"doCapture", "capture"}
    THEN EnterGet(HookCall(t, "captureLeetPane", ""), "leet", "c_chk")
  ELSE IF j.kind = "spawn"
    THEN [HookCall(t, "spawnLeetPane", "") EXCEPT !.pc = "s_env"]
  ELSE IF j.kind = "sendKeys"
    THEN EnterGet(HookCall(t, "sendKeysToLeet", j.keys), "leet", "n_chk")
  ELSE IF j.kind = "stop"
    THEN StopCall(t)
  ELSE EnterGet([HookCall(t, "killLeetPane", "") EXCEPT !.kret = "k_ret"],
                "leet", "k_chk")

\* the calls q are made: each gets under way on a free task, or waits
Launch(q) ==
  LET all == pend \o q
      n == IF Len(all) <= Cardinality(FreeTasks) THEN Len(all)
           ELSE Cardinality(FreeTasks)
  IN /\ Len(all) - n <= MaxQueued
     /\ job' = [t \in AllTasks |->
          IF Free(t) /\ Rank(t) <= n THEN all[Rank(t)] ELSE job[t]]
     /\ task' = [t \in AllTasks |->
          IF Free(t) /\ Rank(t) <= n THEN FirstCall(t, all[Rank(t)]) ELSE task[t]]
     /\ pend' = SubSeq(all, n + 1, Len(all))

\* the calls q of an exit are made: none of them is held back
LaunchAll(q) ==
  LET all == pend \o q
      n == IF Len(all) <= Cardinality(FreeTasks) THEN Len(all)
           ELSE Cardinality(FreeTasks)
  IN /\ job' = [t \in AllTasks |->
          IF Free(t) /\ Rank(t) <= n THEN all[Rank(t)] ELSE job[t]]
     /\ task' = [t \in AllTasks |->
          IF Free(t) /\ Rank(t) <= n THEN FirstCall(t, all[Rank(t)]) ELSE task[t]]
     /\ pend' = SubSeq(all, n + 1, Len(all))

\* the hook's state is written back
Put(w) ==
  /\ hook' = w.hook
  /\ timers' = w.timers
  /\ comp' = [comp EXCEPT !.dirty = w.dirty]

Mounted == comp.phase = "mounted"

\* a useState setter called by an async function: React drops it once the
\* component is unmounted
Apply(w, h) == IF Mounted THEN [w EXCEPT !.hook = h, !.dirty = TRUE] ELSE w

\* client.send({ type: "viewState", data: viewState }) as the controller sees it
SentView(o, text, paneId, error) ==
  [o EXCEPT !.views = Seen(@),
            !.viewBeforeReady = @ \/ o.ready = 0,
            !.lastView = [text |-> text, paneId |-> paneId, error |-> error]]

\* sendViewState of the render that saw (paneId, error):
\* if (!clientRef.current) return; ... clientRef.current.send(...)
SendViewState(o, text, paneId, error) ==
  IF ~comp.clientRef THEN o ELSE SentView(o, text, paneId, error)

\* the component is rendered for the first time and its effects run
Mount ==
  /\ comp.phase = "new"
  /\ LET cfg == EffectiveConfig(comp.config)
         interval == CaptureInterval(comp.config)
         w == HookEffects(World, rendered, cfg, interval, TRUE)
     IN /\ hook' = w.hook
        /\ timers' = w.timers
        /\ Launch(w.calls)
        \* the resize effect calls updateDimensions(): setDimensions({...})
        /\ comp' = [comp EXCEPT !.phase = "mounted", !.dirty = TRUE]
        /\ rendered' = Snapshot(World, rendered, cfg, interval, TRUE)
  \* the connect effect: if (!socketPath) return; let mounted = true; connect()
  /\ ipc' = IF comp.socketPath
              THEN [ipc EXCEPT !.conn = "connecting", !.mounted = TRUE,
                               !.handlerOutput = hook.output,
                               !.handlerPaneId = hook.paneId,
                               !.handlerError = hook.error]
              ELSE ipc
  /\ UNCHANGED <<Env, Files, late, obs>>

\* a state change is rendered and committed, and the effects whose
\* dependencies changed run
Render ==
  /\ Mounted /\ comp.dirty
  /\ LET cfg == EffectiveConfig(comp.config)
         interval == CaptureInterval(comp.config)
         w0 == [World EXCEPT !.dirty = FALSE]
         w == HookEffects(w0, rendered, cfg, interval, FALSE)
     IN /\ Put(w)
        /\ Launch(w.calls)
        /\ rendered' = Snapshot(w0, rendered, cfg, interval, FALSE)
  /\ UNCHANGED <<Env, Files, late, ipc, obs>>

\* the call job[t] awaits has returned
Resumes(t, kind, stage) ==
  /\ job[t].kind = kind /\ job[t].stage = stage
  /\ task[t].pc = "idle"

\* the async function of task t ends; a waiting call takes the task over
Ends(t) ==
  IF pend = <<>>
    THEN /\ job' = [job EXCEPT ![t] = NoJob]
         /\ task' = [task EXCEPT ![t] = FreshLocals]
         /\ pend' = pend
    ELSE /\ job' = [job EXCEPT ![t] = Head(pend)]
         /\ task' = [task EXCEPT ![t] = FirstCall(t, Head(pend))]
         /\ pend' = Tail(pend)

\* spawn() of the spawn effect, after await spawnLeetPane(...)
Spawn_Done(t) ==
  LET tr == task[t]
      failed == [hook EXCEPT !.error = "Failed to spawn Leet pane. Is wandb installed?"]
      thrown == [hook EXCEPT !.error = "Leet requires tmux. Please run inside a tmux session."]
      w == IF tr.rkind = "throw" THEN Apply(World, thrown)
           ELSE IF Truthy(tr.rstr)
             THEN Apply(World, [hook EXCEPT !.paneId = tr.rstr, !.isRunning = TRUE])
           ELSE Apply(World, failed)
  IN
  /\ Resumes(t, "spawn", 0)
  \* finally { isSpawningRef.current = false }
  /\ Put([w EXCEPT !.hook.isSpawningRef = FALSE])
  /\ obs' = IF tr.rkind # "throw" /\ Truthy(tr.rstr) /\ Mounted
              THEN [obs EXCEPT !.paneRunDir = job[t].runDir,
                               !.paneArgs = job[t].leetArgs]
              ELSE obs
  /\ Ends(t)
  /\ UNCHANGED <<Env, Files, late, rendered, ipc>>

\* the killLeetPane() of the spawn effect's cleanup has settled; nobody awaits it
Kill_Done(t) ==
  /\ Resumes(t, "kill", 0)
  /\ Ends(t)
  /\ UNCHANGED <<Env, Files, late, hook, comp, rendered, timers, ipc, obs>>

\* setOutput(captured); setState(prev => ({ ...prev, lastCapture: captured,
\* lastCaptureTime: new Date() }))
\* a capture update that forgets the pane
CapturedDropsPane(h, text) ==
  [h EXCEPT !.output = text, !.lastCapture = text, !.lastCaptureTime = TRUE,
            !.paneId = Null]

\* setOutput(captured); setState(prev => ({ ...prev, lastCapture: captured, lastCaptureTime: new Date() }))
Captured(h, text) ==
  [h EXCEPT !.output = text, !.lastCapture = text, !.lastCaptureTime = TRUE]

\* onCapture of WandbCanvas: sendViewState(output)
OnCapture(o, text, paneId, error) ==
  SendViewState([o EXCEPT !.onCapture = Seen(@)], text, paneId, error)

\* onExit of WandbCanvas: clientRef.current?.send({ type: "cancelled", ... })
OnExit(o) ==
  [o EXCEPT !.onExit = Inc(@),
            !.cancelled = IF comp.clientRef THEN Inc(@) ELSE @]

\* a doCapture that tests `if (captured)`: an empty capture counts as none
DoCaptureAsksAliveIfFalsy(captured) == captured = Null \/ captured = <<>>

\* doCapture: if (captured !== null) {...} else { const alive = await isLeetPaneAlive() ...
DoCaptureAsksAlive(captured) == captured = Null

\* doCapture, after await captureLeetPane()
DoCapture_Captured(t) ==
  LET captured == task[t].rstr IN
  /\ Resumes(t, "doCapture", 1)
  /\ IF ~DoCaptureAsksAlive(captured)
       THEN /\ Put(Apply(World, Captured(hook, captured)))
            /\ obs' = OnCapture(obs, captured, job[t].paneId, job[t].error)
            /\ Ends(t)
       ELSE /\ job' = [job EXCEPT ![t].stage = 2]
            /\ task' = [task EXCEPT ![t] =
                 EnterGet(HookCall(t, "isLeetPaneAlive", ""), "leet", "ia_ret")]
            /\ UNCHANGED <<hook, comp, timers, pend, obs>>
  /\ UNCHANGED <<Env, Files, late, rendered, ipc>>

\* a doCapture that takes every failed capture for the death of the pane
PaneGoneOnNull(alive) == TRUE

\* doCapture: if (!alive) { ... }
PaneGone(alive) == ~alive

\* doCapture, after await isLeetPaneAlive(): if (!alive) { setState(...); onExit?.() }
DoCapture_Alive(t) ==
  LET alive == task[t].rbool IN
  /\ Resumes(t, "doCapture", 2)
  /\ IF PaneGone(alive)
       THEN /\ Put(Apply(World, [hook EXCEPT !.isRunning = FALSE, !.paneId = Null]))
            /\ obs' = OnExit(obs)
       ELSE UNCHANGED <<hook, comp, timers, obs>>
  /\ Ends(t)
  /\ UNCHANGED <<Env, Files, late, rendered, ipc>>

\* capture(), after await captureLeetPane(): no sink is called
Capture_Done(t) ==
  LET captured == task[t].rstr IN
  /\ Resumes(t, "capture", 0)
  /\ IF captured # Null
       THEN Put(Apply(World, Captured(hook, captured)))
       ELSE UNCHANGED <<hook, comp, timers>>
  /\ Ends(t)
  /\ UNCHANGED <<Env, Files, late, rendered, ipc, obs>>

\* stop(), after await killLeetPane(): setState({ paneId: null, isRunning: false, ... })
Stop_Done(t) ==
  /\ Resumes(t, "stop", 0)
  /\ Put(Apply(World, ResetState(hook)))
  /\ Ends(t)
  /\ UNCHANGED <<Env, Files, late, rendered, ipc, obs>>

\* sendKeys(), after await sendKeysToLeet(keys)
SendKeys_Done(t) ==
  /\ Resumes(t, "sendKeys", 0)
  /\ Ends(t)
  /\ UNCHANGED <<Env, Files, late, hook, comp, rendered, timers, ipc, obs>>

\* restart() of the render whose configuration was (runDir, leetArgs)
RestartJob(runDir, leetArgs) ==
  [NoJob EXCEPT !.kind = "restart", !.runDir = runDir, !.leetArgs = leetArgs]

\* restart(), after await killLeetPane(): setState({ paneId: null, ... });
\* setError(null); then await spawnLeetPane({ runDir, leetArgs })
Restart_Killed(t) ==
  /\ Resumes(t, "restart", 0)
  /\ Put(Apply(World, [ResetState(hook) EXCEPT !.error = ""]))
  /\ job' = [job EXCEPT ![t].stage = 1]
  /\ task' = [task EXCEPT ![t] = [HookCall(t, "spawnLeetPane", "") EXCEPT !.pc = "s_env"]]
  /\ UNCHANGED <<Env, Files, late, rendered, pend, ipc, obs>>

\* restart(), after await spawnLeetPane(...): setState({ paneId, isRunning: true,
\* ... }) or setError("Failed to restart Leet pane"); a throw of spawnLeetPane
\* is not caught
Restart_Done(t) ==
  LET tr == task[t]
      started == [ResetState(hook) EXCEPT !.paneId = tr.rstr, !.isRunning = TRUE]
      failed == [hook EXCEPT !.error = "Failed to restart Leet pane"]
  IN
  /\ Resumes(t, "restart", 1)
  /\ IF tr.rkind = "throw" THEN UNCHANGED <<hook, comp, timers>>
     ELSE IF Truthy(tr.rstr) THEN Put(Apply(World, started))
     ELSE Put(Apply(World, failed))
  /\ obs' = IF tr.rkind # "throw" /\ Truthy(tr.rstr) /\ Mounted
              THEN [obs EXCEPT !.paneRunDir = job[t].runDir,
                               !.paneArgs = job[t].leetArgs]
              ELSE obs
  /\ Ends(t)
  /\ UNCHANGED <<Env, Files, late, rendered, ipc>>

\* the doCapture calls made and not ended
DoCaptureCalls ==
  Cardinality({t \in AllTasks : job[t].kind = "doCapture"})
    + Cardinality({i \in 1..Len(pend) : pend[i].kind = "doCapture"})

\* the interval timer of the capture effect fires: doCapture()
Tick ==
  /\ timers.count > 0
  /\ FreeTasks # {}
  /\ Launch(<<DoCaptureJob(timers.paneId, timers.error)>>)
  /\ UNCHANGED <<Env, Files, late, hook, comp, rendered, timers, ipc, obs>>

\* stdout "resize": updateDimensions() sets a new dimensions object
Resize ==
  /\ Mounted /\ ~comp.dirty
  /\ comp' = [comp EXCEPT !.dirty = TRUE]
  /\ UNCHANGED <<Env, Files, late, task, hook, rendered, timers, job, pend, ipc, obs>>

----------------------------------------------------------------------------
(* WandbCanvas: the connection to the controller, its messages, the        *)
(* keyboard.  connectWithRetry and the client come from ../ipc/client.      *)

\* connectWithRetry resolves with a connected client
Connect_Open ==
  /\ ipc.conn = "connecting"
  /\ ipc' = [ipc EXCEPT !.conn = "open"]
  /\ UNCHANGED <<Env, Files, late, task, hook, comp, rendered, timers, job, pend, obs>>

\* connectWithRetry rejects once its retries are used up: console.error(...)
Connect_Fail ==
  /\ ipc.conn = "connecting"
  /\ ipc' = [ipc EXCEPT !.conn = "failed"]
  /\ UNCHANGED <<Env, Files, late, task, hook, comp, rendered, timers, job, pend, obs>>

\* the fixed attempt ceiling of connectWithRetry, and its backoff schedule in
\* units of the first delay
MaxAttempts == 5
BackoffStart == 1
BackoffCap == 4

\* a backoff that doubles without a cap
NextDelayUncapped(d) == IF d = 0 THEN BackoffStart ELSE 2 * d

\* the delay before the next attempt: non-decreasing and capped
NextDelay(d) ==
  IF d = 0 THEN BackoffStart
  ELSE IF 2 * d > BackoffCap THEN BackoffCap ELSE 2 * d

\* an attempt of connectWithRetry is refused: the next one is scheduled
\* after the backoff delay, or, at the attempt ceiling, the promise is
\* rejected with the connection error, which connect() catches:
\* console.error("Failed to connect to controller:", err)
Attempt_Refused ==
  /\ ipc.conn = "connecting" /\ ~ipc.waiting
  /\ ipc.attempts < MaxAttempts
  /\ ipc' = IF ipc.attempts + 1 < MaxAttempts
              THEN [ipc EXCEPT !.attempts = @ + 1, !.waiting = TRUE,
                               !.delay = NextDelay(@)]
              ELSE [ipc EXCEPT !.attempts = @ + 1, !.conn = "failed"]
  /\ UNCHANGED <<Env, Files, late, task, hook, comp, rendered, timers, job, pend, obs>>

\* the backoff delay has passed: the next attempt starts
Retry_Timer ==
  /\ ipc.conn = "connecting" /\ ipc.waiting
  /\ ipc' = [ipc EXCEPT !.waiting = FALSE]
  /\ UNCHANGED <<Env, Files, late, task, hook, comp, rendered, timers, job, pend, obs>>

\* a connect() that does not look at `mounted`
ConnectKeepsAlways(mounted) == TRUE

\* connect(), after the await: if (mounted) {...} else { client.close() }
ConnectKeeps(mounted) == mounted

Connect_Resume ==
  /\ ipc.conn = "open" /\ ~ipc.resumed
  /\ IF ConnectKeeps(ipc.mounted)
       THEN /\ comp' = [comp EXCEPT !.clientRef = TRUE]
            /\ obs' = [obs EXCEPT !.ready = Inc(@)]
            /\ ipc' = [ipc EXCEPT !.resumed = TRUE, !.readyTimer = TRUE]
       ELSE /\ ipc' = [ipc EXCEPT !.resumed = TRUE, !.closed = TRUE]
            /\ UNCHANGED <<comp, obs>>
  /\ UNCHANGED <<Env, Files, late, task, hook, rendered, timers, job, pend>>

\* setTimeout(() => sendViewState(leetPane.output), 1000) fires; the closure is
\* the one of the render that ran the connect effect
Ready_Timer ==
  /\ ipc.readyTimer
  /\ ipc' = [ipc EXCEPT !.readyTimer = FALSE]
  /\ obs' = SendViewState(obs, ipc.handlerOutput, ipc.handlerPaneId, ipc.handlerError)
  /\ UNCHANGED <<Env, Files, late, task, hook, comp, rendered, timers, job, pend>>

\* a handler that reconnects when the controller goes away
OnDisconnectReconnects(i) == [i EXCEPT !.conn = "connecting", !.resumed = FALSE]

\* onDisconnect: () => { // Controller disconnected }
OnDisconnect(i) == i

\* the controller goes away: the client is no longer connected and calls
\* the onDisconnect handler
Disconnect ==
  /\ ipc.conn = "open" /\ ipc.resumed /\ ~ipc.closed
  /\ ipc' = OnDisconnect([ipc EXCEPT !.conn = "lost"])
  /\ UNCHANGED <<Env, Files, late, task, hook, comp, rendered, timers, job, pend, obs>>

\* the cases of the switch in onMessage
KnownTypes == {"close", "update", "ping", "getViewState", "sendKeys", "refresh"}
\* message types of WandbControllerMessage the switch has no case for
OtherTypes == {"focusLeet", "focusCanvas"}

\* a switch whose default case treats the message as a close
SwitchCaseDefaultCloses(type) == IF type \in KnownTypes THEN type ELSE "close"

\* switch (msg.type) { case ...: } has no default case
SwitchCase(type) == IF type \in KnownTypes THEN type ELSE "none"

\* what onMessage reads through `leetPane` and `sendViewState`: the values of
\* the render in which the connect effect ran (deps [socketPath, scenario, exit])
HandlerSees(i, h) ==
  [output |-> i.handlerOutput, paneId |-> i.handlerPaneId, error |-> i.handlerError]

\* sendKeys of the hook: if (!state.paneId) return false; return sendKeysToLeet(keys)
HookSendKeys(paneId, keys) ==
  IF Truthy(paneId) THEN <<SendKeysJob(keys)>> ELSE <<>>

\* a ping case that sends nothing
PongDropped(o) == o

\* case "ping": client.send({ type: "pong" })
Pong(o) == [o EXCEPT !.pong = Inc(@)]

Message(type, config, keys) == [type |-> type, config |-> config, keys |-> keys]

\* a cleanup of the connect effect that leaves the client open
CleanupLeavesOpen(clientRef) == FALSE

\* the cleanup of the connect effect: clientRef.current?.close()
CleanupCloses(clientRef) == clientRef

\* exit() of useApp, called by a handler after the calls `first` it made and
\* the messages it sent (o): Ink unmounts the component in the same turn,
\* and the cleanups run in the order of the effects (spawn effect, capture
\* effect, connect effect, the unmount effect's stop())
ExitApp(first, o) ==
  /\ LET w1 == SpawnCleanup(World)
         w2 == IF rendered.capCleanup THEN CaptureCleanup(w1) ELSE w1
     IN /\ hook' = w2.hook
        /\ timers' = w2.timers
        /\ LaunchAll(first \o Append(w2.calls, StopJob))
  \* mounted = false; clientRef.current?.close(); clientRef.current = null
  /\ ipc' = IF comp.socketPath
              THEN [ipc EXCEPT !.mounted = FALSE, !.closed = @ \/ CleanupCloses(comp.clientRef)]
              ELSE ipc
  /\ comp' = [comp EXCEPT !.phase = "unmounted", !.clientRef = FALSE, !.exited = TRUE]
  /\ obs' = o
  /\ UNCHANGED rendered

\* onMessage(msg) of the connected client
OnMessage(msg) ==
  LET o == [obs EXCEPT !.msgs = @ + 1, !.lastMsg = msg.type]
      c == SwitchCase(msg.type)
      seen == HandlerSees(ipc, hook)
  IN
  /\ ipc.conn = "open" /\ ipc.resumed /\ ~ipc.closed
  /\ obs.msgs < MaxMsgs
  /\ CASE c = "close" ->
            \* leetPane.stop(); exit();
            IF Mounted
              THEN ExitApp(<<StopJob>>, o)
              ELSE /\ LaunchAll(<<StopJob>>)
                   /\ obs' = o
                   /\ UNCHANGED <<hook, comp, rendered, timers, ipc>>
       [] c = "update" ->
            \* setConfig(msg.config)
            /\ comp' = IF Mounted
                         THEN [comp EXCEPT !.config = msg.config, !.dirty = TRUE]
                         ELSE comp
            /\ obs' = o
            /\ UNCHANGED <<task, hook, rendered, timers, job, pend, ipc>>
       [] c = "ping" ->
            \* client.send({ type: "pong" })
            /\ obs' = Pong(o)
            /\ UNCHANGED <<task, hook, comp, rendered, timers, job, pend, ipc>>
       [] c = "getViewState" ->
            \* sendViewState(leetPane.output)
            /\ obs' = SendViewState(o, seen.output, seen.paneId, seen.error)
            /\ UNCHANGED <<task, hook, comp, rendered, timers, job, pend, ipc>>
       [] c = "sendKeys" ->
            \* leetPane.sendKeys(msg.keys)
            /\ Launch(HookSendKeys(seen.paneId, msg.keys))
            /\ obs' = o
            /\ UNCHANGED <<hook, comp, rendered, timers, ipc>>
       [] c = "refresh" ->
            \* leetPane.capture()
            /\ Launch(<<CaptureJob>>)
            /\ obs' = o
            /\ UNCHANGED <<hook, comp, rendered, timers, ipc>>
       [] OTHER ->
            /\ obs' = o
            /\ UNCHANGED <<task, hook, comp, rendered, timers, job, pend, ipc>>
  /\ UNCHANGED <<Env, Files, late>>

\* the configurations an update message carries: the one the canvas was
\* started with, or another run directory
UpdateConfigs == {ConfigA, [ConfigA EXCEPT !.runDir = "runB"]}

Msg_Close == OnMessage(Message("close", NoConfig, ""))
Msg_Update == \E c \in UpdateConfigs : OnMessage(Message("update", c, ""))
Msg_Ping == OnMessage(Message("ping", NoConfig, ""))
Msg_GetViewState == OnMessage(Message("getViewState", NoConfig, ""))
Msg_SendKeys == \E keys \in KeyInputs : OnMessage(Message("sendKeys", NoConfig, keys))
Msg_Refresh == OnMessage(Message("refresh", NoConfig, ""))
Msg_Other == \E type \in OtherTypes : OnMessage(Message(type, NoConfig, ""))

\* useInput: q or ctrl-c: leetPane.stop();
\* clientRef.current?.send({ type: "cancelled", reason: "User quit" }); exit()
Key_Quit ==
  /\ Mounted
  /\ ExitApp(<<StopJob>>,
             [obs EXCEPT !.cancelled = IF comp.clientRef THEN Inc(@) ELSE @])
  /\ UNCHANGED <<Env, Files, late>>

\* useInput: r: leetPane.restart()
Key_Restart ==
  /\ Mounted
  /\ obs.restarts < MaxRestarts
  /\ Launch(<<RestartJob(rendered.runDir, rendered.leetArgs)>>)
  /\ obs' = [obs EXCEPT !.restarts = @ + 1]
  /\ UNCHANGED <<Env, Files, late, hook, comp, rendered, timers, ipc>>

\* useInput: a navigation key: leetPane.sendKeys(<key>) of the last render
Key_Nav ==
  /\ Mounted
  /\ obs.keys < MaxKeys
  /\ \E key \in NavKeys : Launch(HookSendKeys(rendered.paneId, key))
  /\ obs' = [obs EXCEPT !.keys = @ + 1]
  /\ UNCHANGED <<Env, Files, late, hook, comp, rendered, timers, ipc>>

\* Ctrl-C with render(..., { exitOnCtrlC: true }): Ink unmounts the
\* component itself, the key does not reach the useInput handler
Unmount ==
  /\ Mounted
  /\ ExitApp(<<>>, obs)
  /\ UNCHANGED <<Env, Files, late>>

----------------------------------------------------------------------------
(* The canvas process.                                                     *)

GetStep(t) == Get_Exists(t) \/ Get_Read(t) \/ Get_Clear(t)

\* spawnLeetPane with the kill of a pane it finds, and spawn() around it
SpawnStep(t) ==
  \/ Spawn_Env(t) \/ Spawn_Check(t) \/ Spawn_Split(t) \/ Spawn_Save(t)
  \/ Kill_Check(t) \/ Kill_Cmd(t) \/ Kill_Clear(t) \/ Kill_LateClose(t)
  \/ Spawn_Done(t)

\* doCapture
CaptureStep(t) ==
  \/ Capture_Check(t) \/ Capture_Cmd(t) \/ IsLeetPaneAlive_Return(t)
  \/ DoCapture_Captured(t) \/ DoCapture_Alive(t)

\* stop() and the kill of the spawn effect's cleanup
StopStep(t) == KillLeetPane_Return(t) \/ Stop_Done(t) \/ Kill_Done(t)

\* restart()
RestartStep(t) == Restart_Killed(t) \/ Restart_Done(t)

\* sendKeys()
KeysStep(t) == SendKeys_Check(t) \/ SendKeys_Cmd(t) \/ SendKeys_Done(t)

\* the stores and pane tables the canvas process may start with: nothing
\* left, a viewer pane left alive
CleanStore == [file |-> NoFile, panes |-> {}]
LeftPane == [file |-> PriorLeetPane, panes |-> {PriorLeetPane[1]}]

\* the canvas process starts inside its own pane; sink calls and view states
\* are counted up to `upTo`, and `faults` commands may fail on a pane that
\* is there
AppStartWith(sessions, sockets, configs, stores, upTo, faults) ==
  /\ inTmux \in sessions
  /\ \E st \in stores :
       /\ leetFile = st.file
       /\ live = HostPanes \cup {PriorCanvasPane[1]} \cup st.panes
  /\ canvasFile = PriorCanvasPane
  /\ nextId = FirstFreshId
  /\ leetCreated = {}
  /\ canvasCreated = {}
  /\ cmdFailed = FALSE
  /\ faultsLeft = faults
  /\ extClosed = FALSE
  /\ late = NoLate
  /\ task = [t \in AllTasks |-> FreshLocals]
  /\ hook = HookState0
  /\ \E c \in configs, sock \in sockets :
       comp = [CompState0 EXCEPT !.config = c, !.socketPath = sock]
  /\ rendered = Rendered0
  /\ timers = Timers0
  /\ job = [t \in AllTasks |-> NoJob]
  /\ pend = <<>>
  /\ ipc = Ipc0
  /\ obs = [Obs0 EXCEPT !.upTo = upTo]

AppStartCounting(sessions, sockets, configs, stores, upTo) ==
  AppStartWith(sessions, sockets, configs, stores, upTo, MaxFaults)

AppStart(sessions, sockets, configs, stores) ==
  AppStartCounting(sessions, sockets, configs, stores, MaxCount)

\* the capture scheduler: the canvas without a controller, its pane spawned
\* once, captured on the timer and on every render, while the user may press
\* a navigation key
InitSched ==
  \/ AppStart({TRUE}, {FALSE}, {ConfigA}, {CleanStore})
  \/ AppStart({TRUE}, {FALSE}, {ConfigNoRefresh}, {LeftPane})

NextSched ==
  \/ Mount \/ Render \/ Key_Nav
  \/ \E t \in AllTasks :
       GetStep(t) \/ SpawnStep(t) \/ CaptureStep(t) \/ KeysStep(t)
  \/ Tick
  \/ ExternalClose(ViewerPanes)

SpecSched == InitSched /\ [][NextSched]_vars

\* the user quits: stop(), exit(), and the cleanups of the unmount; a
\* navigation key may be pressed before
\* the scripted run: the canvas without a controller spawns its pane, no
\* command fails on a pane that is there, and the pane answers ScriptTexts
\* captures before its program ends
InitScript ==
  AppStartWith({TRUE}, {FALSE}, {ConfigA}, {CleanStore}, ScriptTexts + 1, 0)

NextScript ==
  \/ Mount \/ Render \/ Tick
  \/ \E t \in AllTasks :
       \/ GetStep(t)
       \/ Spawn_Env(t) \/ Spawn_Check(t) \/ Spawn_Split(t) \/ Spawn_Save(t)
       \/ Spawn_Done(t)
       \/ Capture_Check(t) \/ Script_Capture(t) \/ IsLeetPaneAlive_Return(t)
       \/ DoCapture_Captured(t) \/ DoCapture_Alive(t)

SpecScript == InitScript /\ [][NextScript]_vars

InitStop == AppStart({TRUE}, {FALSE}, {ConfigA}, {CleanStore})

NextStop ==
  \/ Mount \/ Render \/ Key_Quit \/ Key_Nav \/ Unmount
  \/ \E t \in AllTasks :
       \/ GetStep(t) \/ SpawnStep(t) \/ CaptureStep(t) \/ StopStep(t)
       \/ KeysStep(t)
  \/ Tick

SpecStop == InitStop /\ [][NextStop]_vars

\* the canvas started with a socket path: the connection to the controller
\* is made while the pane is spawned, and the user may quit at any time
InitConnect ==
  AppStartCounting({TRUE}, {TRUE}, {ConfigA}, {CleanStore}, MaxSeen)

NextConnect ==
  \/ Mount \/ Render \/ Key_Quit \/ Unmount
  \/ Connect_Open \/ Connect_Fail \/ Connect_Resume \/ Ready_Timer \/ Tick
  \/ \E t \in AllTasks : GetStep(t) \/ SpawnStep(t) \/ CaptureStep(t) \/ StopStep(t)

SpecConnect == InitConnect /\ [][NextConnect]_vars

\* the connected canvas serves the controller's messages; a viewer pane may
\* be left from an earlier canvas
InitRouter ==
  AppStartCounting({TRUE}, {TRUE}, {ConfigA}, {CleanStore, LeftPane}, MaxSeen)

NextRouter ==
  \/ Mount \/ Render
  \/ Connect_Open \/ Connect_Resume \/ Ready_Timer \/ Tick
  \/ Msg_Ping \/ Msg_GetViewState \/ Msg_SendKeys \/ Msg_Other
  \/ \E t \in AllTasks : GetStep(t) \/ SpawnStep(t) \/ CaptureStep(t)

SpecRouter == InitRouter /\ [][NextRouter]_vars

\* the controller closes the canvas: stop(), exit(), unmount
NextClose ==
  \/ Mount \/ Render
  \/ Connect_Open \/ Connect_Resume \/ Ready_Timer \/ Tick
  \/ Msg_Close \/ Unmount
  \/ \E t \in AllTasks : GetStep(t) \/ SpawnStep(t) \/ CaptureStep(t) \/ StopStep(t)

SpecClose == InitConnect /\ [][NextClose]_vars

\* the controller's first message is an update of the configuration
Update_First == obs.msgs = 0 /\ Msg_Update

NextUpdate ==
  \/ Mount \/ Render
  \/ Connect_Open \/ Connect_Resume \/ Ready_Timer \/ Tick
  \/ Update_First
  \/ \E t \in AllTasks :
       \/ GetStep(t) \/ SpawnStep(t) \/ CaptureStep(t)
       \/ KillLeetPane_Return(t) \/ Kill_Done(t)

SpecUpdate == InitConnect /\ [][NextUpdate]_vars

\* the canvas started outside a multiplexer session: no pane is ever made,
\* and the controller connects, sends its messages and may go away while the
\* user may quit
InitIpc == AppStart({FALSE}, {TRUE}, {ConfigA}, {CleanStore})

NextIpc ==
  \/ Mount \/ Render \/ Key_Quit \/ Unmount
  \/ Connect_Open \/ Connect_Fail \/ Connect_Resume \/ Ready_Timer \/ Disconnect
  \/ Msg_Close \/ Msg_Update \/ Msg_Ping \/ Msg_GetViewState \/ Msg_SendKeys
  \/ Msg_Refresh \/ Msg_Other
  \/ \E t \in AllTasks :
       \/ Get_Exists(t) \/ Spawn_Env(t) \/ Spawn_Done(t)
       \/ Kill_Check(t) \/ KillLeetPane_Return(t) \/ Kill_Done(t) \/ Stop_Done(t)
       \/ Capture_Check(t) \/ Capture_Done(t)

SpecIpc == InitIpc /\ [][NextIpc]_vars

\* the canvas started with the path of a socket that always refuses, outside
\* a multiplexer session; the attempt in progress completes and the backoff
\* timer fires
NextRetry ==
  \/ Mount \/ Render \/ Key_Quit \/ Unmount
  \/ Attempt_Refused \/ Retry_Timer
  \/ \E t \in AllTasks :
       \/ Get_Exists(t) \/ Spawn_Env(t) \/ Spawn_Done(t)
       \/ Kill_Check(t) \/ KillLeetPane_Return(t) \/ Kill_Done(t) \/ Stop_Done(t)

SpecRetry ==
  /\ InitIpc /\ [][NextRetry]_vars
  /\ WF_vars(Mount) /\ WF_vars(Attempt_Refused) /\ WF_vars(Retry_Timer)

\* the user restarts the viewer once, at any time after the mount
NextRestart ==
  \/ Mount \/ Render \/ Key_Restart \/ Tick
  \/ \E t \in AllTasks :
       \/ GetStep(t) \/ SpawnStep(t) \/ CaptureStep(t)
       \/ KillLeetPane_Return(t) \/ RestartStep(t)

SpecRestart == InitStop /\ [][NextRestart]_vars

\* the controller asks the connected canvas for fresh captures
NextRefresh ==
  \/ Mount \/ Render
  \/ Connect_Open \/ Connect_Resume \/ Ready_Timer \/ Tick \/ Msg_Refresh
  \/ \E t \in AllTasks :
       \/ GetStep(t) \/ CaptureStep(t) \/ Capture_Done(t)
       \/ Spawn_Env(t) \/ Spawn_Check(t) \/ Spawn_Split(t) \/ Spawn_Save(t)
       \/ Spawn_Done(t)

SpecRefresh == InitConnect /\ [][NextRefresh]_vars

\* a configuration with a refresh interval of its own
ConfigFast == [ConfigA EXCEPT !.refreshInterval = 500]

\* nothing left by an earlier canvas, or a viewer pane left alive
InitTick ==
  \/ AppStart({TRUE}, {TRUE}, {ConfigA}, {CleanStore})
  \/ AppStart({TRUE}, {TRUE}, {ConfigFast}, {LeftPane})

\* the connected canvas captures on its timer while the terminal is resized
NextTick ==
  \/ Mount \/ Render \/ Resize
  \/ Connect_Open \/ Connect_Resume \/ Ready_Timer \/ Tick
  \/ \E t \in AllTasks : GetStep(t) \/ SpawnStep(t) \/ CaptureStep(t)

SpecTick == InitTick /\ [][NextTick]_vars

ViewerStep(t) ==
  \/ Get_Exists(t) \/ Get_Read(t) \/ Get_Clear(t)
  \/ GetLeetPaneId_Call(t) \/ GetLeetPaneId_Return(t)
  \/ IsLeetPaneAlive_Call(t) \/ IsLeetPaneAlive_Return(t)
  \/ KillLeetPane_Call(t) \/ Kill_Check(t) \/ Kill_Cmd(t) \/ Kill_Clear(t) \/ Kill_LateClose(t)
  \/ KillLeetPane_Return(t)
  \/ SpawnLeetPane_Call(t) \/ Spawn_Env(t) \/ Spawn_Check(t) \/ Spawn_Split(t)
  \/ Spawn_Save(t)
  \/ CaptureLeetPane_Call(t) \/ Capture_Check(t) \/ Capture_Cmd(t)
  \/ SendKeysToLeet_Call(t) \/ SendKeys_Check(t) \/ SendKeys_Cmd(t)

CanvasStep(t) ==
  \/ Get_Exists(t) \/ Get_Read(t) \/ Get_Clear(t)
  \/ SpawnCanvas_Call(t) \/ Tmux_Check(t) \/ Reuse_Interrupt(t) \/ Reuse_Settle(t)
  \/ Reuse_Command(t) \/ Tmux_Reused(t) \/ Tmux_Clear(t) \/ Create_Split(t)
  \/ Create_Save(t) \/ SpawnCanvas_Return(t) \/ Auto_Launch(t)
  \/ Reuse_LateSettle \/ Reuse_LateCommand \/ Auto_Session \/ Auto_Split

\* one caller of the viewer-role operations, each call finishing before the
\* next starts, while the user may close viewer panes
Next ==
  \/ \E t \in Callers : ViewerStep(t)
  \/ Interrupt_Exits \/ ExternalClose(ViewerPanes)

Spec == Init /\ [][Next]_vars

\* one caller of spawnCanvas, each call finishing before the next starts
NextCanvas ==
  \/ \E t \in Callers : CanvasStep(t)
  \/ Interrupt_Exits \/ ExternalClose(AnyPane)

SpecCanvas == InitCanvas /\ [][NextCanvas]_vars

\* only spawnLeetPane is called, again and again
SpawnOnlyStep(t) ==
  \/ SpawnLeetPane_Call(t) \/ Spawn_Env(t) \/ Spawn_Check(t) \/ Spawn_Split(t)
  \/ Spawn_Save(t)
  \/ Get_Exists(t) \/ Get_Read(t) \/ Get_Clear(t)
  \/ Kill_Check(t) \/ Kill_Cmd(t) \/ Kill_Clear(t) \/ Kill_LateClose(t)

NextSpawn == (\E t \in Callers : SpawnOnlyStep(t)) \/ ExternalClose(ViewerPanes)

SpecSpawn == Init /\ [][NextSpawn]_vars

\* both roles: the stale-reference verification as every caller runs it
InitAll ==
  /\ inTmux \in BOOLEAN
  \* the stores outlive the multiplexer server and pane ids start again with
  \* a new server: the viewer store may name the pane that is now the
  \* canvas pane
  /\ leetFile \in {NoFile, <<>>, PriorLeetPane, PriorCanvasPane}
  /\ canvasFile \in {NoFile, <<>>, PriorCanvasPane}
  /\ live \in {HostPanes \cup S : S \in SUBSET PriorPanes}
  /\ nextId = FirstFreshId
  /\ leetCreated = {}
  /\ canvasCreated = {}
  /\ cmdFailed = FALSE
  /\ faultsLeft = MaxFaults
  /\ extClosed = FALSE
  /\ late = NoLate
  /\ task = [t \in AllTasks |-> FreshLocals]
  /\ Unmounted

NextAll ==
  \/ \E t \in Callers : ViewerStep(t) \/ CanvasStep(t)
  \/ Interrupt_Exits \/ ExternalClose(AnyPane)

SpecAll == InitAll /\ [][NextAll]_vars

TypeOK ==
  /\ inTmux \in BOOLEAN
  /\ live \subseteq 1..MaxPaneId
  /\ nextId \in FirstFreshId..(MaxPaneId + 1)

----------------------------------------------------------------------------
(* Vocabulary of the properties.                                           *)

\* caller t has completed a call of `op` and started nothing since
Done(t, op) == task[t].pc = "idle" /\ task[t].op = op

\* this step is the return of caller t's call of `op`
Returns(t, op) ==
  task[t].pc # "idle" /\ task'[t].pc = "idle" /\ task'[t].op = op

\* the store holds no reference: the file is absent or blank
NoReference(f) == f = NoFile \/ f = <<>>

\* positions in the log of a call where multiplexer command `name` was issued
Issued(tr, name) == {i \in 1..Len(tr.log) : tr.log[i].c = name}

\* positions where the call wrote a pane id (not a blank) into a store
IdWrites(tr) == {i \in 1..Len(tr.log) : tr.log[i].c = "write" /\ tr.log[i].t # <<>>}

StoreWrites(tr) == {i \in 1..Len(tr.log) : tr.log[i].c = "write"}

PrevWasKill(tr) == tr.prev \in {"killLeetPane", "killLeetPane:failed"}

\* the query of the last verification exited 0 and echoed the persisted id
QueryEchoed(tr) == tr.queried /\ tr.qstatus = 0 /\ TrimOpt(tr.qout) = tr.pid

----------------------------------------------------------------------------
(* C1. After any sequence of completed spawnLeetPane calls, whatever the   *)
(* multiplexer commands returned, at most one pane created by those calls  *)
(* is alive, and a live one is the pane the viewer store refers to.        *)
C1_SingleLiveViewerPane ==
  \A t \in Callers :
    task[t].pc = "idle" =>
      /\ Cardinality(leetCreated \cap live) <= 1
      /\ \A p \in leetCreated \cap live : leetFile = PaneText(p)

(* C2. When killLeetPane has completed the viewer store holds no reference *)
(* (blank, or still absent), and an isLeetPaneAlive called next returns    *)
(* false, whether kill-pane exited 0, exited non-zero or did not start.    *)
C2_KillBlanksStore ==
  \A t \in Callers :
    /\ Done(t, "killLeetPane") => NoReference(leetFile)
    /\ (Done(t, "isLeetPaneAlive") /\ PrevWasKill(task[t]))
         => (task[t].rkind = "bool" /\ task[t].rbool = FALSE /\ NoReference(leetFile))

\* isLeetPaneAlive has answered after a kill whose kill-pane command failed
\* and left the pane alive
C2_Witness ==
  \E t \in Callers :
    /\ Done(t, "isLeetPaneAlive")
    /\ task[t].prev = "killLeetPane:failed"
    /\ task[t].f0.leet = <<>>
    /\ task[t].rbool = FALSE
    /\ PriorLeetPane[1] \in live

(* C3. Stale-reference verification returns the persisted id, the id it   *)
(* read from the store, exactly when the query exited 0 and echoed that id,*)
(* and then it has written nothing to the store; a non-empty persisted id  *)
(* whose query failed or echoed another id gives null and a blank store,   *)
(* and a read of the blank store gives null again and leaves it blank.     *)
(* Read for the viewer role when getLeetPaneId has returned and for the    *)
(* canvas role when getCanvasPaneId has returned to spawnTmux.  No step of *)
(* a verification changes a store, except the blanking of a stale          *)
(* reference, which writes the store of its own role.                      *)
VerifiedRight(tr, file0, fileNow) ==
  /\ (tr.res # Null) <=> QueryEchoed(tr)
  /\ tr.res # Null => (tr.res = tr.pid /\ Truthy(tr.pid) /\ StoreWrites(tr) = {})
  /\ (tr.queried /\ Truthy(tr.pid) /\ ~QueryEchoed(tr))
       => (tr.res = Null /\ fileNow = <<>>)
  /\ file0 = <<>> => (tr.res = Null /\ fileNow = <<>>)

\* what holds of a verification that has returned
VerificationOutcome ==
  \A t \in Callers :
    /\ Done(t, "getLeetPaneId")
         => /\ task[t].rstr = task[t].res
            /\ VerifiedRight(task[t], task[t].f0.leet, leetFile)
            /\ task[t].prev = "getLeetPaneId:stale"
                 => /\ task[t].rstr = Null
                    /\ leetFile = <<>>
                    /\ StoreWrites(task[t]) = {}
    /\ (task[t].op = "spawnCanvas" /\ task[t].pc = "t_chk")
         => VerifiedRight(task[t], task[t].f0.canvas, canvasFile)

\* what a step of a verification does to the stores
VerificationStep ==
  \A t \in Callers :
    (task'[t] # task[t] /\ task[t].pc \in {"g_exists", "g_read", "g_clear", "gl_ret"})
      => IF task[t].pc = "g_clear"
           THEN /\ task[t].queried /\ ~QueryEchoed(task[t])
                /\ task[t].role = "leet" => (leetFile' = <<>> /\ canvasFile' = canvasFile)
                /\ task[t].role = "canvas" => (canvasFile' = <<>> /\ leetFile' = leetFile)
           ELSE Files' = Files

C3_Verification == []VerificationOutcome /\ [][VerificationStep]_vars

\* getLeetPaneId found a dead persisted id that the multiplexer resolved to
\* another pane with exit 0
C3_Witness ==
  \E t \in Callers :
    /\ Done(t, "getLeetPaneId")
    /\ Truthy(task[t].pid)
    /\ task[t].qstatus = 0 /\ task[t].queried
    /\ TrimOpt(task[t].qout) # task[t].pid
    /\ task[t].rstr = Null
    /\ leetFile = <<>>

\* the locals and the store of a spawnLeetPane call that has returned
SpawnResultRight(tr, file) ==
  LET printed == tr.code = 0 /\ tr.out # Null /\ Trim(tr.out) # <<>>
  IN /\ Cardinality(Issued(tr, "split-window")) = 1
     /\ tr.rkind = "str"
     /\ (Truthy(tr.rstr) /\ file = tr.rstr) <=> printed
     /\ printed => tr.rstr = Trim(tr.out)
     /\ ~printed => (tr.rstr = Null /\ IdWrites(tr) = {})

(* C4. Inside a multiplexer session spawnLeetPane returns a pane id, which *)
(* the viewer store then holds, exactly when split-window exited 0 and     *)
(* printed a non-empty id; otherwise it resolves to null, does not throw   *)
(* and writes no id into the store.                                        *)
\* Read at the step in which the call returns: a close handler of its
\* kill-pane that runs after the return is not part of the statement.
C4_SpawnResult ==
  [][\A t \in Callers :
       (Returns(t, "spawnLeetPane") /\ inTmux) =>
         SpawnResultRight(task'[t], leetFile')]_vars

\* split-window exited 0 without printing an id: null, and no id written
C4_Witness ==
  \E t \in Callers :
    /\ Done(t, "spawnLeetPane") /\ inTmux
    /\ task[t].code = 0 /\ task[t].out = <<>>
    /\ task[t].rstr = Null
    /\ task[t].f0.leet = PriorLeetPane

(* C5. Outside a multiplexer session spawnLeetPane throws before it reads  *)
(* or writes the reference store and before it issues any multiplexer      *)
(* command: an existing reference is neither killed nor blanked, and       *)
(* nothing is retried.                                                     *)
C5_NoSessionThrows ==
  \A t \in Callers :
    (Done(t, "spawnLeetPane") /\ ~inTmux) =>
      /\ task[t].rkind = "throw"
      /\ task[t].log = <<>>
      /\ leetFile = task[t].f0.leet

\* it threw while the store held a reference to a live pane
C5_Witness ==
  \E t \in Callers :
    /\ Done(t, "spawnLeetPane") /\ ~inTmux
    /\ task[t].rkind = "throw"
    /\ leetFile = PriorLeetPane
    /\ PriorLeetPane[1] \in live

(* C6. captureLeetPane returns null exactly when there is no verified live *)
(* reference or capture-pane did not exit 0; on exit 0 it returns the      *)
(* captured text, an empty capture as the empty string.                    *)
C6_CaptureResult ==
  \A t \in Callers :
    Done(t, "captureLeetPane") =>
      LET tr == task[t]
          issued == Issued(tr, "capture-pane") # {}
      IN /\ tr.rkind = "str"
         /\ issued <=> tr.res # Null
         /\ (tr.rstr = Null) <=> (tr.res = Null \/ tr.code # 0)
         /\ (issued /\ tr.code = 0) => tr.rstr = tr.out

\* an empty screen was captured with exit 0 and came back as ""
C6_Witness ==
  \E t \in Callers :
    /\ Done(t, "captureLeetPane")
    /\ task[t].res # Null /\ task[t].code = 0 /\ task[t].out = <<>>
    /\ task[t].rstr = <<>>

(* C7. sendKeysToLeet without a verified live reference returns false and  *)
(* issues no send-keys; with one it issues exactly one send-keys, to the   *)
(* referenced pane and with the given keys, and returns true iff that      *)
(* command exited 0.                                                       *)
C7_SendKeys ==
  \A t \in Callers :
    Done(t, "sendKeysToLeet") =>
      LET tr == task[t]
          sent == Issued(tr, "send-keys")
      IN /\ tr.rkind = "bool"
         /\ tr.res = Null => (tr.rbool = FALSE /\ sent = {})
         /\ tr.res # Null =>
              /\ Cardinality(sent) = 1
              /\ \A i \in sent : /\ tr.log[i].t = Trim(tr.f0.leet)
                                 /\ tr.log[i].t = tr.res
                                 /\ tr.log[i].a = tr.arg
              /\ tr.rbool <=> tr.code = 0

\* keys were sent to the verified pane and the command exited non-zero
C7_Witness ==
  \E t \in Callers :
    /\ Done(t, "sendKeysToLeet")
    /\ task[t].res # Null
    /\ task[t].code = 1
    /\ task[t].rbool = FALSE
    /\ Issued(task[t], "send-keys") # {}

(* C8. killLeetPane without a verified live reference returns true and     *)
(* issues no kill-pane; so a killLeetPane called right after a completed   *)
(* one returns true and leaves the store without a reference.              *)
C8_KillIdempotent ==
  \A t \in Callers :
    Done(t, "killLeetPane") =>
      LET tr == task[t] IN
      /\ tr.rkind = "bool"
      /\ tr.res = Null => (tr.rbool = TRUE /\ Issued(tr, "kill-pane") = {})
      /\ PrevWasKill(tr) =>
           /\ tr.rbool = TRUE
           /\ Issued(tr, "kill-pane") = {}
           /\ NoReference(leetFile)

\* the second kill after one whose kill-pane command failed
C8_Witness ==
  \E t \in Callers :
    /\ Done(t, "killLeetPane")
    /\ task[t].prev = "killLeetPane:failed"
    /\ task[t].rbool = TRUE
    /\ task[t].f0.leet = <<>>

(* C9. spawnTmux with a verified live canvas reference sends the interrupt *)
(* key to the referenced pane, then waits the settle delay, then sends the *)
(* new command, and creates no pane when that succeeds; a pane is created  *)
(* only when no reference was verified or the reuse failed, and after a    *)
(* failed reuse the store is blanked before the pane is created.           *)
C9_ReuseOrder ==
  \A t \in Callers :
    (task[t].op = "spawnCanvas" /\ task[t].pc \in {"cv_ret", "idle"} /\ inTmux) =>
      LET tr == task[t]
          L == tr.log
          n == Len(L)
          splits == Issued(tr, "split-window")
          Fallback(i) == /\ n >= i + 1
                         /\ L[i] = StoreWrite("canvas", <<>>)
                         /\ L[i + 1].c = "split-window"
                         /\ splits = {i + 1}
      IN /\ Truthy(tr.res) =>
              /\ tr.res = Trim(tr.f0.canvas)
              /\ n >= 5
              /\ L[3] = Cmd("send-keys", tr.res, "C-c")
              /\ \/ /\ L[4] = Delay(SettleDelayMs)
                    /\ L[5] = Cmd("send-keys", tr.res, tr.arg)
                    /\ \/ n = 5 /\ splits = {} /\ tr.tres /\ canvasFile = tr.f0.canvas
                       \/ Fallback(6) /\ ~tr.reused
                 \/ Fallback(4) /\ ~tr.reused
         /\ ~Truthy(tr.res) =>
              /\ Issued(tr, "send-keys") = {}
              /\ Issued(tr, "delay") = {}
              /\ Cardinality(splits) = 1

\* a reuse whose command exited non-zero fell back: interrupt, delay, command,
\* blank, split
C9_Witness ==
  \E t \in Callers :
    /\ Done(t, "spawnCanvas") /\ inTmux
    /\ Truthy(task[t].res)
    /\ Len(task[t].log) >= 7
    /\ task[t].log[4] = Delay(SettleDelayMs)
    /\ task[t].log[6] = StoreWrite("canvas", <<>>)
    /\ task[t].log[7].c = "split-window"

(* C10. Across completed spawnTmux invocations during which no pane was    *)
(* closed by hand and every multiplexer command exited 0, at most one pane *)
(* is created in total: later invocations reuse the persisted pane.        *)
C10_OnePaneEver ==
  \A t \in Callers :
    (task[t].pc = "idle" /\ ~cmdFailed /\ ~extClosed)
      => Cardinality(canvasCreated) <= 1

----------------------------------------------------------------------------
(* The capture scheduler of useLeetPane (SpecSched: one canvas, one spawn). *)

(* C11. When the pane is detected dead the exit sink is invoked exactly     *)
(* once for that death, however the doCapture runs of the timer and of the *)
(* effect overlap, and the hook is left not running with a null pane id.   *)
C11_ExitOnce ==
  /\ obs.onExit <= 1
  /\ obs.onExit > 0 => (~hook.isRunning /\ hook.paneId = Null)

\* a step in which doCapture() is called: by the interval timer, or by the
\* capture effect of a render
CaptureAttempted ==
  \/ Tick
  \/ Render /\ CaptureRuns(hook.isRunning, hook.paneId)

(* C12. With a pane that returns text to the first three captures and is   *)
(* dead from the fourth on (SpecScript), the capture sink is invoked       *)
(* exactly three times and the exit sink exactly once, never more often;   *)
(* and once the exit sink has fired, no capture is attempted and no sink   *)
(* is invoked again.                                                       *)
C12_NothingAfterExit ==
  /\ [](obs.onCapture <= ScriptTexts /\ obs.onExit <= 1)
  /\ [][obs.onExit > 0 =>
          /\ obs'.onExit = obs.onExit
          /\ obs'.onCapture = obs.onCapture
          /\ ~CaptureAttempted]_vars

\* the configuration asks for no auto-refresh: refreshInterval 0, or none given
RefreshDisabled(c) == ~c.defined \/ c.refreshInterval <= 0

(* C13. With a refresh interval of 0, or with none configured, the         *)
(* repeating capture timer is disabled: no interval timer is armed and no  *)
(* periodic tick ever fires.                                               *)
C13_NoTickWhenDisabled ==
  [][RefreshDisabled(comp.config) => (timers'.count = 0 /\ ~Tick)]_vars

----------------------------------------------------------------------------
(* stop() of useLeetPane (SpecStop).                                        *)

\* the killLeetPane() that stop() awaits has returned to it
StopReturned(t) == job[t].kind = "stop" /\ task[t].pc = "idle"

\* the verification of the call found the pane of the store alive
FoundAlive(tr) == tr.queried /\ Truthy(tr.res) /\ tr.res = tr.pid

StopSteps(t) ==
  job[t].kind = "stop" /\ (task'[t] # task[t] \/ job'[t] # job[t])

\* stop() is under way, or waits to get under way
StopUnderWay ==
  \/ \E t \in AllTasks : job[t].kind = "stop"
  \/ \E i \in 1..Len(pend) : pend[i].kind = "stop"

----------------------------------------------------------------------------
(* The connection to the controller (SpecConnect).                          *)

\* connect() resumes after await connectWithRetry(...) in this step
ConnectResumes == ipc.conn = "open" /\ ~ipc.resumed /\ ipc'.resumed

(* C15. On a successful connection made while the component is mounted     *)
(* exactly one ready message is sent, and it precedes every viewState sent *)
(* on the connection; if the component was unmounted before the connection *)
(* completed, no ready is sent and the connected client is closed.         *)
C15_ReadyHandshake ==
  /\ [](obs.ready <= 1 /\ ~obs.viewBeforeReady /\ (obs.views > 0 => obs.ready = 1))
  /\ [][ConnectResumes =>
          IF comp.phase = "mounted"
            THEN obs'.ready = obs.ready + 1 /\ comp'.clientRef /\ ~ipc'.closed
            ELSE obs'.ready = obs.ready /\ ~comp'.clientRef /\ ipc'.closed]_vars
  /\ [][obs'.ready # obs.ready => ConnectResumes]_vars

\* the connection completed after the component was unmounted
C15_Witness ==
  /\ ipc.resumed /\ ipc.closed
  /\ comp.phase = "unmounted"
  /\ obs.ready = 0 /\ obs.views = 0

----------------------------------------------------------------------------
(* The message router: onMessage of WandbCanvas (SpecRouter).               *)

\* onMessage handles a message of one of `types` in this step
Handles(types) == obs'.msgs = obs.msgs + 1 /\ obs'.lastMsg \in types

\* every state change of the component has been rendered
Settled == Mounted /\ ~comp.dirty

\* the hook holds a pane that is alive and that the store refers to
PaneManaged ==
  /\ hook.isRunning /\ Truthy(hook.paneId)
  /\ leetFile = hook.paneId
  /\ hook.paneId[1] \in live

(* C17. A getViewState message is answered with exactly one viewState      *)
(* whose terminalSnapshot is the text of the most recent successful        *)
(* capture and whose leetPaneId is the pane id the hook holds; no capture  *)
(* is made for it, however long after the connection the message arrives.  *)
C17_ViewStateIsLatest ==
  [][(Handles({"getViewState"}) /\ Settled) =>
       /\ obs.views < obs.upTo => obs'.views = obs.views + 1
       /\ obs'.lastView.text = hook.output
       /\ obs'.lastView.paneId = hook.paneId
       /\ UNCHANGED <<task, job, pend, Env, Files, late>>]_vars

(* C18. A sendKeys message received while the managed pane is alive and    *)
(* referenced makes one sendKeysToLeet call with the message's keys, also  *)
(* when the pane was spawned after the connection handler was installed.   *)
C18_SendKeysForwarded ==
  [][(Handles({"sendKeys"}) /\ PaneManaged /\ Settled) =>
       \E keys \in KeyInputs :
         \/ \E t \in AllTasks :
              /\ Free(t) /\ job'[t] = SendKeysJob(keys)
              /\ task'[t].op = "sendKeysToLeet" /\ task'[t].arg = keys
         \/ pend' = Append(pend, SendKeysJob(keys))]_vars

(* C20. A message whose type the switch has no case for (focusLeet,        *)
(* focusCanvas) is ignored: no router, pane or scheduler state changes,    *)
(* nothing is sent, and the connection stays open.                         *)
C20_UnknownIgnored ==
  [][Handles(OtherTypes) =>
       /\ UNCHANGED <<task, hook, comp, rendered, timers, job, pend, ipc, Env, Files, late>>
       /\ obs' = [obs EXCEPT !.msgs = @ + 1, !.lastMsg = obs'.lastMsg]
       /\ ipc'.conn = "open" /\ ~ipc'.closed]_vars

\* an unhandled message has arrived while the pane runs; the connection is open
C20_Witness ==
  /\ obs.lastMsg \in OtherTypes
  /\ PaneManaged
  /\ ipc.conn = "open" /\ ~ipc.closed /\ comp.clientRef

----------------------------------------------------------------------------
(* The close message (SpecClose).                                           *)

\* the component is unmounted and every call it made has returned
Quiet ==
  /\ comp.phase = "unmounted"
  /\ pend = <<>>
  /\ \A t \in AllTasks : Free(t)

\* live panes of spawnLeetPane that the store or the hook refers to
ManagedAlive ==
  {p \in leetCreated \cap live : leetFile = PaneText(p) \/ hook.paneId = PaneText(p)}

(* C16. Once a close message has been processed and everything it started  *)
(* has run to its end (no multiplexer command having failed), the capture  *)
(* timer is cancelled, the managed pane is killed (the viewer store is     *)
(* blank and no managed pane is alive) and exit has been requested; with   *)
(* no timer armed no capture tick fires from then on.                      *)
C16_CloseCleansUp ==
  (obs.lastMsg = "close" /\ Quiet /\ ~cmdFailed) =>
    /\ timers.count = 0
    /\ comp.exited
    /\ NoReference(leetFile)
    /\ ManagedAlive = {}

----------------------------------------------------------------------------
(* The update message (SpecUpdate).                                         *)

\* no spawn or kill that the hook started is in flight or waiting
NoLifecycleCall ==
  /\ \A t \in AllTasks : job[t].kind \notin {"spawn", "kill", "stop"}
  /\ \A i \in 1..Len(pend) : pend[i].kind \notin {"spawn", "kill", "stop"}

(* C19. After an update message the local configuration is the message's   *)
(* config, and once the respawn it causes has run to its end (no command   *)
(* failed, no spawn error) the managed pane (the hook running with its id, *)
(* the store holding its id, the pane alive) is one started with the new   *)
(* configuration, also when the update arrived while an earlier spawn was  *)
(* in flight.                                                              *)
C19_UpdateRespawns ==
  /\ [][Handles({"update"}) => comp'.config \in UpdateConfigs]_vars
  /\ []((/\ obs.lastMsg = "update" /\ Settled /\ NoLifecycleCall
         /\ ~cmdFailed /\ hook.error = "") =>
          /\ PaneManaged
          /\ obs.paneRunDir = EffectiveConfig(comp.config).runDir
          /\ obs.paneArgs = EffectiveConfig(comp.config).leetArgs)

----------------------------------------------------------------------------
(* The controller's connection: ping, disconnect, the exit paths.          *)

\* C21: each ping message the client delivers is answered with exactly one
\* pong sent on that client, and a pong is sent for no other message type
\* and by no other step of the canvas.
C21_PingPong ==
  [][/\ Handles({"ping"}) => obs'.pong = obs.pong + 1
     /\ obs'.pong # obs.pong => Handles({"ping"})]_vars

\* one ping and one message of another type have been handled
C21_Witness ==
  /\ obs.msgs = 2 /\ obs.pong = 1
  /\ obs.lastMsg \in (KnownTypes \cup OtherTypes) \ {"ping"}

\* C22: a disconnect never starts a new connection attempt: once the
\* connection is lost it stays lost, and connectWithRetry is called only by
\* the connect effect of the first render (socketPath and scenario are props
\* that never change), never from the disconnect.
C22_NoReconnect ==
  [][/\ ipc.conn = "lost" => ipc'.conn = "lost"
     /\ (ipc'.conn = "connecting" /\ ipc.conn # "connecting") =>
          (ipc.conn = "none" /\ comp.phase = "new")]_vars

\* the controller went away after a message, and the canvas rendered since
C22_Witness ==
  /\ ipc.conn = "lost" /\ obs.msgs > 0
  /\ Mounted /\ ~comp.dirty /\ comp.clientRef

\* the client connectWithRetry resolved with has been handed to connect()
ClientDelivered == ipc.conn \in {"open", "lost"} /\ ipc.resumed

\* C23: on every exit path (quit key, close message, unmount while
\* connected, unmount while the connection attempt is pending) the client is
\* closed and the reference cleared: once the component is unmounted the
\* reference is null, and a client that connect() has received, before or
\* after the unmount, is closed.
C23_NoClientOutlives ==
  comp.phase = "unmounted" =>
    /\ ~comp.clientRef
    /\ ClientDelivered => ipc.closed

\* the controller's close message ended a canvas that had sent `ready`, and
\* the unmount closed the client
C23_Witness ==
  /\ comp.phase = "unmounted" /\ obs.lastMsg = "close" /\ obs.ready = 1
  /\ ClientDelivered /\ ipc.closed /\ ~comp.clientRef

\* C24: against a socket that always refuses, the delays of connectWithRetry
\* never decrease and stay under the cap, at most MaxAttempts attempts are
\* made, the promise never resolves with a client, and the call ends: the
\* connection error reaches connect().
C24_RetryEnds ==
  /\ [][/\ ipc'.delay >= ipc.delay /\ ipc'.delay <= BackoffCap
        /\ ipc'.attempts <= MaxAttempts
        /\ ipc'.conn # "open" /\ ~comp'.clientRef]_vars
  /\ <>(ipc.conn = "failed" /\ ipc.attempts = MaxAttempts)

\* every attempt was refused, the last delay was the cap, and the error was
\* caught
C24_Witness ==
  ipc.conn = "failed" /\ ipc.attempts = MaxAttempts /\ ipc.delay = BackoffCap

----------------------------------------------------------------------------
(* The hook's lifecycle operations racing each other.                      *)

\* no operation of the manager is in flight or waiting
Quiescent == pend = <<>> /\ \A t \in AllTasks : Free(t)

\* C25: in every quiescent state reached by interleaving the mount spawn,
\* the restart, stop and the unmount (no multiplexer command having failed),
\* every live pane the manager created and handed out (the hook or the store
\* holds its id) is the pane the viewer store refers to, and after the
\* unmount no such pane is alive.
C25_LivePaneIsStored ==
  (Quiescent /\ ~cmdFailed) =>
    /\ \A p \in ManagedAlive : leetFile = PaneText(p)
    /\ comp.phase = "unmounted" => ManagedAlive = {}

----------------------------------------------------------------------------
(* The capture scheduler: cancellation, overlap, ticks.                    *)

\* a doCapture of task t goes on after one of its awaits in this step
DoCaptureResumes(t) ==
  /\ job[t].kind = "doCapture" /\ task[t].pc = "idle"
  /\ job'[t] # job[t] \/ task'[t] # task[t]

\* the capture timer is not armed: every doCapture still in flight was
\* started by an effect whose cleanup has run since
SchedulerCancelled == timers.count = 0

\* C26: once the capture scheduler is cancelled, a doCapture that was in
\* flight and goes on afterwards updates neither lastCapture,
\* lastCaptureTime nor output and invokes neither the capture sink nor the
\* exit sink.
C26_CancelledCaptureDropped ==
  [][(SchedulerCancelled /\ \E t \in AllTasks : DoCaptureResumes(t)) =>
       /\ hook'.lastCapture = hook.lastCapture
       /\ hook'.lastCaptureTime = hook.lastCaptureTime
       /\ hook'.output = hook.output
       /\ obs'.onCapture = obs.onCapture
       /\ obs'.onExit = obs.onExit]_vars

\* the calls of captureLeetPane made by the hook that have not returned
CapturesOutstanding ==
  {t \in AllTasks : /\ job[t].kind \in {"doCapture", "capture"}
                    /\ task[t].op = "captureLeetPane" /\ task[t].pc # "idle"}

\* C27: within one hook instance at most one capture call is outstanding at
\* any time, whether it was made by a timer tick, by the immediate capture
\* of the capture effect or by a refresh.
C27_OneCaptureOutstanding == Cardinality(CapturesOutstanding) <= 1

\* the doCapture of task t goes on after isLeetPaneAlive() returned `alive`
AliveReturns(t, alive) ==
  /\ job[t].stage = 2 /\ task[t].rbool = alive
  /\ DoCaptureResumes(t)

\* C28: when a capture of the scheduler returned null and the liveness check
\* reports the pane alive, the scheduler stays running: the hook's state
\* (isRunning, paneId, lastCapture, ...) is unchanged, no sink is invoked
\* and the timer stays as it was armed, so the next tick captures again.
C28_GlitchKeepsRunning ==
  [][(\E t \in AllTasks : AliveReturns(t, TRUE)) =>
       /\ hook' = hook
       /\ obs'.onCapture = obs.onCapture /\ obs'.onExit = obs.onExit
       /\ timers' = timers]_vars

\* the scheduler is running with its timer armed and every capture made so
\* far has ended without a sink being invoked: each returned null (the
\* capture command failed) and the pane was found alive
C28_Witness ==
  /\ hook.isRunning /\ Truthy(hook.paneId) /\ timers.count = 1
  /\ ~comp.dirty /\ Quiescent
  /\ cmdFailed /\ obs.onCapture = 0 /\ obs.onExit = 0
  /\ hook.lastCapture = <<>>

\* the doCapture of task t goes on after captureLeetPane() returned
CaptureReturns(t) ==
  /\ job[t].stage = 1
  /\ DoCaptureResumes(t)

\* C29: each capture of the scheduler that returns a string, the empty
\* string included, sets output and lastCapture to that text, sets
\* lastCaptureTime and invokes the capture sink once with that text (the
\* sink sends it to the controller as the view state); a capture that
\* returned null invokes no sink, and nothing else invokes the sink.
C29_CaptureApplied ==
  [][/\ \A t \in AllTasks : CaptureReturns(t) =>
          IF task[t].rstr # Null
            THEN /\ hook'.output = task[t].rstr
                 /\ hook'.lastCapture = task[t].rstr
                 /\ hook'.lastCaptureTime
                 /\ obs'.onCapture = Seen(obs.onCapture)
                 /\ comp.clientRef =>
                      /\ obs'.views = Seen(obs.views)
                      /\ obs'.lastView.text = task[t].rstr
            ELSE obs'.onCapture = obs.onCapture /\ obs'.views = obs.views
     /\ obs'.onCapture # obs.onCapture =>
          \E t \in AllTasks : CaptureReturns(t) /\ task[t].rstr # Null]_vars

\* a tick captured the empty string: it is the hook's lastCapture and the
\* text of the view state the sink sent
C29_Witness ==
  /\ hook.lastCaptureTime /\ hook.lastCapture = <<>> /\ hook.output = <<>>
  /\ obs.onCapture > 0 /\ comp.clientRef
  /\ obs.lastView.text = <<>> /\ obs.ready = 1

\* this step commits a render of the mounted component and runs its effects
Commits ==
  /\ comp'.phase = "mounted"
  /\ \/ comp.phase = "new"
     \/ comp.dirty /\ (~comp'.dirty \/ rendered' # rendered)

\* C30: the capture scheduler starts only for a state with isRunning true
\* and a paneId: a commit of such a state makes one doCapture call at once
\* and leaves exactly one timer armed, at the configured interval; a commit
\* of any other state makes no call and leaves no timer; no other step arms
\* a timer; and at no time is more than one timer armed.
C30_SchedulerStart ==
  /\ [](timers.count <= 1)
  /\ [][IF Commits
          THEN IF hook.isRunning /\ Truthy(hook.paneId)
                 THEN /\ timers'.count = 1
                      /\ timers'.interval = CaptureInterval(comp.config)
                      /\ DoCaptureCalls' = DoCaptureCalls + 1
                 ELSE /\ timers'.count = 0
                      /\ DoCaptureCalls' = DoCaptureCalls
          ELSE timers'.count <= timers.count]_vars

\* the scheduler was started for a pane with the configured 500 ms, a
\* capture has completed and the render that followed re-armed the timer
C30_Witness ==
  /\ timers.count = 1 /\ timers.interval = 500
  /\ hook.isRunning /\ Truthy(hook.paneId) /\ ~comp.dirty
  /\ obs.onCapture > 0 /\ DoCaptureCalls > 0

----------------------------------------------------------------------------
(* Stopping twice.                                                         *)

\* the stop() of task t goes on after its await killLeetPane() in this step
StopResumes(t) ==
  /\ job[t].kind = "stop" /\ task[t].pc = "idle"
  /\ job'[t] # job[t] \/ task'[t] # task[t]

\* the hook state a stop() leaves
Stopped(h) ==
  /\ h.paneId = Null /\ ~h.isRunning
  /\ h.lastCapture = <<>> /\ ~h.lastCaptureTime

\* the exit of the canvas, and every call it made, has run to its end
ExitDone == comp.exited /\ comp.phase = "unmounted" /\ Quiescent

----------------------------------------------------------------------------
(* Two invocations sharing the viewer reference store.                     *)

\* process t has made no call yet
NotCalled(t) == task[t].op = "none"

\* two processes, each making one viewer-role call; their steps interleave
\* freely, since the store has no lock
NextTwo ==
  \/ \E t \in AllTasks :
       \/ NotCalled(t) /\ SpawnLeetPane_Call(t)
       \/ NotCalled(t) /\ SendKeysToLeet_Call(t)
       \/ NotCalled(t) /\ CaptureLeetPane_Call(t)
       \/ NotCalled(t) /\ KillLeetPane_Call(t)
       \/ Get_Exists(t) \/ Get_Read(t) \/ Get_Clear(t)
       \/ Kill_Check(t) \/ Kill_Cmd(t) \/ Kill_Clear(t) \/ Kill_LateClose(t) \/ KillLeetPane_Return(t)
       \/ Spawn_Env(t) \/ Spawn_Check(t) \/ Spawn_Split(t) \/ Spawn_Save(t)
       \/ Capture_Check(t) \/ Capture_Cmd(t)
       \/ SendKeys_Check(t) \/ SendKeys_Cmd(t)
  \/ Interrupt_Exits

SpecTwo == Init /\ [][NextTwo]_vars

\* the multiplexer commands that act on the viewer pane
PaneCommands == {"send-keys", "capture-pane", "kill-pane"}

\* process t issues a pane command in this step
IssuesCommand(t) ==
  /\ Len(task'[t].log) = Len(task[t].log) + 1
  /\ task'[t].log[Len(task'[t].log)].c \in PaneCommands

\* the target of the command process t issues in this step
IssuedTarget(t) == task'[t].log[Len(task'[t].log)].t

\* the panes this step removes
Removed == live \ live'

\* the calls of processes t and u were under way at the same time: the one
\* that started later started before the other had returned
Concurrent(t, u) == task[t].conc \/ task[u].conc

\* another process, whose spawn ran concurrently with the call of t, has
\* completed that spawn and the store names its pane p
JustStoredByOther(t, p) ==
  \E u \in AllTasks \ {t} :
    /\ Concurrent(t, u)
    /\ Done(u, "spawnLeetPane") /\ task[u].rstr = PaneText(p)
    /\ p \in leetCreated /\ leetFile = PaneText(p)

\* C32 as stated, its second half: a spawn racing another spawn never kills
\* the pane the other process has just stored.
C32_SpawnRaceOnlyRedundant ==
  [][\A t \in AllTasks : \A p \in Removed :
       task[t].op = "spawnLeetPane" /\ task'[t] # task[t]
         => ~JustStoredByOther(t, p)]_vars

\* C32: nothing guards the store against a second invocation.  Every
\* send-keys, capture-pane and kill-pane is issued for the id its own call
\* read from the store and saw echoed by the multiplexer, whatever the store
\* holds by then, and a kill removes no pane but that one; so a command can
\* be issued for a pane that is no longer the stored reference, and a spawn
\* can kill the pane another spawn has just stored.
C32_CommandsUseVerifiedId ==
  [][\A t \in AllTasks :
       /\ IssuesCommand(t) =>
            /\ IssuedTarget(t) = task[t].pid
            /\ QueryEchoed(task[t])
            /\ IssuedTarget(t) \in {PriorLeetPane} \cup {PaneText(p) : p \in leetCreated}
       /\ task'[t] # task[t] =>
            Removed \subseteq {p \in live : PaneText(p) = task[t].pid}]_vars

\* process a verified the prior pane as live (its query echoed the id),
\* process b then killed that pane and stored a new one, and only then a
\* issued its send-keys for the prior pane: when the command went out the
\* store held b's pane
C32_Witness ==
  \E a, b \in AllTasks :
    /\ a # b /\ Concurrent(a, b)
    /\ Done(a, "sendKeysToLeet") /\ Issued(task[a], "send-keys") # {}
    /\ task[a].pid = PriorLeetPane /\ QueryEchoed(task[a])
    /\ Done(b, "spawnLeetPane")
    /\ \E i \in Issued(task[b], "kill-pane") : task[b].log[i].t = PriorLeetPane
    /\ PriorLeetPane[1] \notin live
    /\ \E y \in leetCreated :
         /\ task[b].rstr = PaneText(y)
         /\ task[a].atIssue = PaneText(y)
         /\ PaneText(y) # task[a].pid

\* two spawns raced: each has completed with a pane of its own, and the
\* later one killed the pane the other had stored
C32_SpawnKilledStored ==
  \E a, b \in AllTasks :
    /\ a # b /\ Concurrent(a, b)
    /\ Done(a, "spawnLeetPane") /\ Done(b, "spawnLeetPane")
    /\ \E x, y \in leetCreated :
         /\ x # y /\ task[a].rstr = PaneText(x) /\ task[b].rstr = PaneText(y)
         /\ x \notin live /\ y \in live /\ leetFile = PaneText(y)
         /\ \E i \in Issued(task[b], "kill-pane") : task[b].log[i].t = PaneText(x)

----------------------------------------------------------------------------
(* The exit sink and the manager's own kills.                              *)

\* the doCapture of task t goes on after its await isLeetPaneAlive() with
\* alive false in this step: it calls the exit sink
ExitSinkCalled(t) ==
  /\ job[t].kind = "doCapture" /\ job[t].stage = 2
  /\ task[t].pc = "idle" /\ PaneGone(task[t].rbool)
  /\ job'[t] # job[t] \/ task'[t] # task[t]

\* the pane the doCapture of task t was started for is gone and nobody but
\* the manager removed a pane: the manager killed it
KilledByManager(t) ==
  /\ Truthy(job[t].paneId) /\ job[t].paneId[1] \notin live
  /\ ~extClosed

\* C33: the exit sink fires only for a pane that died without the manager
\* killing it: no call of the exit sink is made by a doCapture whose pane
\* the manager itself has killed (config-update respawn, restart, stop).
C33_NoExitAfterOwnKill ==
  [][\A t \in AllTasks : ExitSinkCalled(t) => ~KilledByManager(t)]_vars

----------------------------------------------------------------------------
(* isRunning and paneId.                                                   *)

\* a capture that returned text is applied to the hook state in this step:
\* by the doCapture of the scheduler or by the hook's capture()
CaptureUpdate(t) ==
  /\ \/ job[t].kind = "doCapture" /\ job[t].stage = 1
     \/ job[t].kind = "capture"
  /\ task[t].pc = "idle" /\ task[t].rstr # Null
  /\ job'[t] # job[t] \/ task'[t] # task[t]

\* C34: in every reachable hook state isRunning is true exactly when paneId
\* is not null, and a capture update leaves paneId and isRunning (and the
\* error) as they were.
C34_RunningIffPane ==
  /\ [](hook.isRunning <=> hook.paneId # Null)
  /\ [][\A t \in AllTasks : CaptureUpdate(t) =>
          /\ hook'.paneId = hook.paneId
          /\ hook'.isRunning = hook.isRunning
          /\ hook'.error = hook.error]_vars

\* the pane runs, and both the scheduler and a refresh message have applied
\* a capture to the state
C34_Witness ==
  /\ hook.isRunning /\ Truthy(hook.paneId) /\ hook.lastCaptureTime
  /\ obs.onCapture > 0 /\ obs.msgs > 0 /\ obs.lastMsg = "refresh"
  /\ \E t \in AllTasks : job[t].kind = "capture" /\ task[t].pc = "idle"
                           /\ task[t].rstr # Null

----------------------------------------------------------------------------
(* The two reference stores.                                               *)

ViewerOps == {"getLeetPaneId", "spawnLeetPane", "captureLeetPane",
              "sendKeysToLeet", "killLeetPane", "isLeetPaneAlive"}

\* the panes of the canvas role: the one left from before, the ones
\* spawnTmux created and the one the canvas store names
CanvasPanes ==
  {PriorCanvasPane[1]} \cup canvasCreated
    \cup {p \in 1..MaxPaneId : canvasFile = PaneText(p)}

\* caller t takes a step of the operation `ops` names
StepOf(t, ops) == task'[t] # task[t] /\ task'[t].op \in ops

\* C35 as stated: the stores of the two roles are independent.  No step of
\* a viewer-role operation writes the canvas pane reference, removes a
\* canvas pane or addresses a kill-pane to one, and no step of spawnCanvas /
\* spawnTmux and its helpers writes the viewer pane reference.
C35_StoresIndependent ==
  [][\A t \in Callers :
       /\ StepOf(t, ViewerOps) =>
            /\ canvasFile' = canvasFile
            /\ Removed \cap CanvasPanes = {}
            /\ \A i \in Issued(task'[t], "kill-pane") :
                 \A p \in CanvasPanes : task'[t].log[i].t # PaneText(p)
            /\ \A i \in StoreWrites(task'[t]) : task'[t].log[i].a = "leet"
       /\ StepOf(t, {"spawnCanvas"}) =>
            /\ leetFile' = leetFile
            /\ \A i \in StoreWrites(task'[t]) : task'[t].log[i].a = "canvas"]_vars

\* the viewer store, at the start of the call of t or when the call read
\* it, named pane p
ViewerStoreNamed(t, p) ==
  task'[t].f0.leet = PaneText(p) \/ task'[t].pid = PaneText(p)

\* C35: the stores of the two roles are written independently.  No step of
\* a viewer-role operation writes the canvas pane reference and no step of
\* spawnCanvas / spawnTmux and its helpers writes the viewer pane
\* reference.  A viewer-role operation addresses its kill-pane to the id it
\* read from the viewer store and removes no other pane: it kills a canvas
\* pane only when the viewer store named that pane.
C35_StoresSeparate ==
  [][\A t \in Callers :
       /\ StepOf(t, ViewerOps) =>
            /\ canvasFile' = canvasFile
            /\ \A p \in Removed : task'[t].pid = PaneText(p)
            /\ \A i \in Issued(task'[t], "kill-pane") :
                 /\ task'[t].log[i].t = task'[t].pid
                 /\ \A p \in CanvasPanes :
                      task'[t].log[i].t = PaneText(p) => ViewerStoreNamed(t, p)
            /\ \A i \in StoreWrites(task'[t]) : task'[t].log[i].a = "leet"
       /\ StepOf(t, {"spawnCanvas"}) =>
            /\ leetFile' = leetFile
            /\ \A i \in StoreWrites(task'[t]) : task'[t].log[i].a = "canvas"]_vars

\* the viewer store named the canvas pane (an id of an earlier multiplexer
\* server, given out again): killLeetPane verified it, killed the canvas
\* pane and blanked the viewer store, and the canvas store still names the
\* pane that is gone
C35_Witness ==
  \E t \in Callers :
    /\ Done(t, "killLeetPane") /\ Issued(task[t], "kill-pane") # {}
    /\ task[t].f0.leet = PriorCanvasPane /\ task[t].pid = PriorCanvasPane
    /\ task[t].code = 0
    /\ StoreWrites(task[t]) # {} /\ leetFile = <<>>
    /\ PriorCanvasPane[1] \notin live
    /\ canvasFile = PriorCanvasPane
====
